---------------------------- MODULE Spec2Model ----------------------------
(***************************************************************************)
(* State-machine model of the youtubeupload pipeline:                      *)
(*   main.py              VideoUploadManager (scan, single / merged        *)
(*                        upload, ledger, deletion)                        *)
(*   youtube_uploader.py  YouTubeUploader (_get_credentials,               *)
(*                        _build_service, upload_video, _execute_upload)   *)
(*                        and FallbackUploader                             *)
(*   video_processor.py   FilenameParser, VideoProcessor                   *)
(*   config.py            VideoConfig                                      *)
(* The program is single threaded: one program counter pc walks through    *)
(* the handlers; the outcomes of the collaborators (platform, ffmpeg,      *)
(* file system, OAuth library) are chosen by the environment with \E.      *)
(* The ledger file is assumed readable at start-up (main.py:69-72).        *)
(***************************************************************************)
EXTENDS Integers, Sequences, FiniteSets, TLC

(***************************************************************************)
(* Bounds of the model and constants of the program.                       *)
(***************************************************************************)
\* number of consecutive executions of main() that are explored
MaxRuns == 2
\* number of direct _build_service calls that are explored
MaxBuildCalls == 2
\* VideoConfig.max_retries
MaxRetries == 3
\* VideoConfig.retry_delay
RetryDelay == 5
\* VideoConfig.early_morning_cutoff
EarlyMorningCutoff == 4
\* time.sleep(2) between two groups in process_videos
PacingDelay == 2

(***************************************************************************)
(* VideoConfig: the fields of the dataclass.  A lookup of any other name   *)
(* on a VideoConfig instance raises AttributeError.                        *)
(***************************************************************************)
ConfigFields ==
    {"video_dir", "log_file", "temp_dir", "ffmpeg_path", "ffprobe_path",
     "youtube_client_secrets", "youtube_credentials", "youtube_scopes",
     "early_morning_cutoff", "max_file_size_gb", "video_quality",
     "default_privacy", "default_category", "default_tags",
     "max_retries", "retry_delay"}

ConfigHas(name) == name \in ConfigFields

(***************************************************************************)
(* The video files the directory may hold.  Each name stands for a         *)
(* filename "YYYY-MM-DD HH-MM-SS - user - activity (x).mp4"; day and hour  *)
(* are the recorded calendar day (as a day number) and hour, titleOk tells *)
(* whether the activity segment has two words (parse_title succeeds).      *)
(* "d" and "e" are files of one day, "d" with a one-word activity segment. *)
(* "g" stands for "garbage.mp4", whose first segment is no timestamp, and  *)
(* "t" for a file of the directory that does not end with ".mp4".          *)
(***************************************************************************)
Files == {"a", "b", "c", "d", "e", "g", "t"}

FileInfo ==
    [f \in Files |->
        CASE f = "a" -> [day |-> 1, hour |-> 12, titleOk |-> TRUE, tsOk |-> TRUE, mp4 |-> TRUE]
          [] f = "b" -> [day |-> 2, hour |-> 21, titleOk |-> TRUE, tsOk |-> TRUE, mp4 |-> TRUE]
          [] f = "c" -> [day |-> 3, hour |-> 1,  titleOk |-> TRUE, tsOk |-> TRUE, mp4 |-> TRUE]
          [] f = "d" -> [day |-> 4, hour |-> 9,  titleOk |-> FALSE, tsOk |-> TRUE, mp4 |-> TRUE]
          [] f = "e" -> [day |-> 4, hour |-> 15, titleOk |-> TRUE, tsOk |-> TRUE, mp4 |-> TRUE]
          [] f = "g" -> [day |-> 0, hour |-> 0,  titleOk |-> FALSE, tsOk |-> FALSE, mp4 |-> TRUE]
          [] f = "t" -> [day |-> 1, hour |-> 12, titleOk |-> TRUE, tsOk |-> TRUE, mp4 |-> FALSE]]

\* what video_dir holds when the first run starts
DirListings ==
    {{}, {"a"}, {"a", "b"}, {"a", "d"}, {"b", "c"}, {"a", "b", "c", "d"},
     {"a", "g", "t"}, {"d", "e"}}

\* filename.endswith(".mp4")
IsMp4(f) == FileInfo[f].mp4

\* get_video_datetime, lines 273-275: TRUE when strptime accepts the first
\* segment, FALSE when InvalidFilenameError is raised
timestamp_ok(f) == FileInfo[f].tsOk

\* ShiftEarly with the comparison dt.hour <= cutoff
ShiftEarly_Inclusive(day, hour, cutoff) ==
    IF hour <= cutoff
    THEN [day |-> day - 1, hour |-> hour]
    ELSE [day |-> day, hour |-> hour]

\* get_video_datetime, lines 278-279: one day earlier when the hour is
\* before the cutoff; the time of day is kept
ShiftEarly(day, hour, cutoff) ==
    IF hour < cutoff
    THEN [day |-> day - 1, hour |-> hour]
    ELSE [day |-> day, hour |-> hour]

\* FilenameParser.get_video_datetime: the parsed timestamp, one day earlier
\* when the hour is before the cutoff
get_video_datetime(f) ==
    ShiftEarly(FileInfo[f].day, FileInfo[f].hour, EarlyMorningCutoff)

\* FilenameParser.get_video_date
get_video_date(f) == get_video_datetime(f).day

\* FilenameParser.parse_title: TRUE when it returns, FALSE when it raises
\* InvalidFilenameError
parse_title_ok(f) == FileInfo[f].titleOk

Range(s) == {s[i] : i \in 1..Len(s)}

\* the sequences that enumerate a finite set once each
Perms(S) ==
    {s \in [1..Cardinality(S) -> S] : \A x \in S : \E i \in DOMAIN s : s[i] = x}

\* 2^n
RECURSIVE Pow2(_)
Pow2(n) == IF n <= 0 THEN 1 ELSE 2 * Pow2(n - 1)

Min(x, y) == IF x <= y THEN x ELSE y

(***************************************************************************)
(* Credentials (google.oauth2.credentials.Credentials): valid is           *)
(* "token present and not expired".                                        *)
(***************************************************************************)
NoCreds == [kind |-> "none", token |-> FALSE, expired |-> FALSE, refresh |-> FALSE]

Rec(t, e, r) == [kind |-> "record", token |-> t, expired |-> e, refresh |-> r]

CredValid(c) == c.kind = "record" /\ c.token /\ ~c.expired

\* what the credential file may hold when a run starts
CredFileStates ==
    { [kind |-> "absent", token |-> FALSE, expired |-> FALSE, refresh |-> FALSE],
      [kind |-> "unparsable", token |-> FALSE, expired |-> FALSE, refresh |-> FALSE],
      Rec(TRUE, FALSE, TRUE),      \* valid
      Rec(TRUE, TRUE, TRUE),       \* expired, refresh token
      Rec(TRUE, TRUE, FALSE),      \* expired, no refresh token
      Rec(FALSE, FALSE, TRUE) }    \* no token, not expired

\* the record an interactive authorization yields
FreshCreds == Rec(TRUE, FALSE, TRUE)


\* _get_credentials, lines 81-88: the record read from the credential file,
\* none when the file is absent or cannot be parsed
LoadCredentials(file) == IF file.kind = "record" THEN file ELSE NoCreds

\* _get_credentials, line 92: the guard of the refresh attempt
ShouldRefresh(creds) ==
    creds.kind = "record" /\ creds.expired /\ creds.refresh

\* _get_credentials, line 100: the guard of the interactive authorization
ShouldAuthorize(creds) == creds.kind = "none"

\* RefreshResult when a failed refresh leaves the loaded record in place
RefreshResult_KeepOnFailure(creds, refreshOk) ==
    IF refreshOk THEN [creds EXCEPT !.token = TRUE, !.expired = FALSE] ELSE creds

\* _get_credentials, lines 93-98: creds.refresh(Request()) renews the token,
\* or raises and the record is dropped (creds = None)
RefreshResult(creds, refreshOk) ==
    IF refreshOk THEN [creds EXCEPT !.token = TRUE, !.expired = FALSE] ELSE NoCreds

\* MissingSecrets without the test of the client-secrets file
MissingSecrets_Unchecked(secrets) == FALSE

\* _get_credentials, line 101: not os.path.exists(youtube_client_secrets)
MissingSecrets(secrets) == ~secrets

\* _get_credentials, lines 114-122: FORCE_MANUAL_OAUTH is set, or there is
\* no display or the session is an SSH session
IsHeadless(noDisplay, force_manual) == noDisplay \/ force_manual

\* what the manual flow can meet: a code that is exchanged, an empty code,
\* or an exception of authorization_url, input or fetch_token
ManualOutcomes == {"ok", "empty_code", "error"}

\* _manual_oauth_flow, lines 208-236: TRUE when flow.credentials is
\* returned; an empty code and every exception end in AuthenticationError
manual_oauth_flow(outcome) == outcome = "ok"

\* the steps of _manual_oauth_flow: the code is asked for, and exchanged
\* unless it is empty
ManualTrace(outcome) ==
    IF outcome = "empty_code" THEN <<"manual">> ELSE <<"manual", "fetch_token">>

\* Authorize when a failure of the local-server flow is not followed by the
\* manual flow
Authorize_NoManualFallback(headless, localOk, manual) ==
    IF ~headless
    THEN [ok |-> localOk, trace |-> <<"local_server">>]
    ELSE [ok |-> manual_oauth_flow(manual), trace |-> ManualTrace(manual)]

\* _get_credentials, lines 124-140: the local-server flow unless the
\* environment is headless, the manual flow after its failure; ok is FALSE
\* when an exception leaves the block
Authorize(headless, localOk, manual) ==
    IF ~headless
    THEN IF localOk
         THEN [ok |-> TRUE, trace |-> <<"local_server">>]
         ELSE [ok |-> manual_oauth_flow(manual),
               trace |-> <<"local_server">> \o ManualTrace(manual)]
    ELSE [ok |-> manual_oauth_flow(manual), trace |-> ManualTrace(manual)]

\* SaveCredentials when the exception of the write is not caught
SaveCredentials_RaiseOnFailure(creds, file, saveOk, trace) ==
    IF saveOk
    THEN [raised |-> FALSE, creds |-> creds, file |-> creds,
          trace |-> Append(trace, "save")]
    ELSE [raised |-> TRUE, creds |-> NoCreds, file |-> file,
          trace |-> Append(trace, "save_failed")]

\* _get_credentials, lines 145-153: the record is written to the credential
\* file; a failure is logged and the record is returned all the same
SaveCredentials(creds, file, saveOk, trace) ==
    [raised |-> FALSE, creds |-> creds,
     file |-> IF saveOk THEN creds ELSE file,
     trace |-> Append(trace, IF saveOk THEN "save" ELSE "save_failed")]

\* what the environment decides during _get_credentials: client secrets
\* present and readable, no display or SSH, FORCE_MANUAL_OAUTH set, and the
\* outcomes of refresh, local-server flow, manual flow and file write
CredEnv == [secrets : BOOLEAN, flowOk : BOOLEAN, headless : BOOLEAN,
            force_manual : BOOLEAN, refreshOk : BOOLEAN, localOk : BOOLEAN,
            manual : ManualOutcomes, saveOk : BOOLEAN]

\* YouTubeUploader._get_credentials on the credential file `file` in the
\* environment e.  Yields raised (AuthenticationError), the record
\* returned, the credential file afterwards and the trace of the steps
\* taken.
get_credentials(file, e) ==
    LET loaded == LoadCredentials(file)
        t0 == IF file.kind = "absent" THEN <<>> ELSE <<"load">>
        inBlock == ~CredValid(loaded)
        doRefresh == inBlock /\ ShouldRefresh(loaded)
        c1 == IF doRefresh THEN RefreshResult(loaded, e.refreshOk) ELSE loaded
        t1 == IF doRefresh THEN t0 \o <<"refresh">> ELSE t0
        doAuth == inBlock /\ ShouldAuthorize(c1)
        auth == Authorize(IsHeadless(e.headless, e.force_manual), e.localOk, e.manual)
    IN  IF doAuth /\ MissingSecrets(e.secrets)
        THEN [raised |-> TRUE, creds |-> NoCreds, file |-> file,
              trace |-> t1 \o <<"secrets_missing">>]
        ELSE IF doAuth /\ ~e.flowOk
        THEN [raised |-> TRUE, creds |-> NoCreds, file |-> file,
              trace |-> t1 \o <<"read_secrets">>]
        ELSE IF doAuth /\ ~auth.ok
        THEN [raised |-> TRUE, creds |-> NoCreds, file |-> file,
              trace |-> t1 \o <<"read_secrets">> \o auth.trace]
        ELSE LET c2 == IF doAuth THEN FreshCreds ELSE c1
                 t2 == IF doAuth THEN t1 \o <<"read_secrets">> \o auth.trace ELSE t1
             IN  SaveCredentials(c2, file, e.saveOk, t2)

(***************************************************************************)
(* upload_video and _execute_upload: pure parts.                           *)
(***************************************************************************)
\* AttemptBackoff without the factor 2 ** attempt
AttemptBackoff_Flat(attempt) == RetryDelay

\* upload_video, lines 328 and 337: the sleep after a failed attempt
\* (attempt counts from 0)
AttemptBackoff(attempt) == RetryDelay * Pow2(attempt)

\* _execute_upload, lines 378-379: the sleep before a chunk retry
ChunkBackoff(retry) == Min(Pow2(retry), RetryDelay)

\* upload_video, lines 324 and 364: the retriable status codes
RetriableStatus == {500, 502, 503, 504}

\* the exceptions an attempt can end with; "http" carries a status
HttpStatuses == {403, 503}

IsRetriable(status) == status \in RetriableStatus

\* OnException when every HttpError is handled as a retriable one
OnException_RetryAnyStatus(exc, attempt) ==
    IF attempt < MaxRetries - 1
    THEN [act |-> "sleep", sleep |-> AttemptBackoff(attempt)]
    ELSE [act |-> IF exc.kind = "http" THEN "none" ELSE "raise", sleep |-> 0]

\* upload_video, lines 323-340: what the except clauses do with an exception
\* raised in attempt `attempt` (0-based): sleep and continue, leave the loop
\* (return None), or raise YouTubeUploadError
OnException(exc, attempt) ==
    IF exc.kind = "http"
    THEN IF IsRetriable(exc.status)
         THEN IF attempt < MaxRetries - 1
              THEN [act |-> "sleep", sleep |-> AttemptBackoff(attempt)]
              ELSE [act |-> "none", sleep |-> 0]
         ELSE [act |-> "raise", sleep |-> 0]
    ELSE IF attempt < MaxRetries - 1
         THEN [act |-> "sleep", sleep |-> AttemptBackoff(attempt)]
         ELSE [act |-> "raise", sleep |-> 0]

\* what next_chunk can do.  The media is sent in a single request
\* (youtube_uploader.py 298-302, chunksize=-1), so a call that returns
\* carries the response; otherwise it raises HttpError or another error.
ChunkOutcomes == {"response", "http503", "http403", "error"}

\* _execute_upload, lines 358-381: one pass of the while loop on the locals
\* error (not None) and retry, for a next_chunk outcome other than a
\* non-retriable HttpError (which line 367 re-raises).  giveUp is the
\* "return None" of line 376, sleep the time.sleep of line 381 (0: none).
ChunkStep(error, retry, out) ==
    LET err2 == error \/ out \in {"http503", "error"}
        retry2 == IF err2 THEN retry + 1 ELSE retry
        giveUp == err2 /\ retry2 > MaxRetries
    IN  [response |-> (out = "response"), error |-> err2, retry |-> retry2,
         giveUp |-> giveUp,
         sleep |-> IF err2 /\ ~giveUp THEN ChunkBackoff(retry2) ELSE 0]

(***************************************************************************)
(* VideoUploadManager: pure parts.                                         *)
(***************************************************************************)
\* PendingFiles without the test "filename in self._uploaded_files"
PendingFiles_IgnoreLedger(dirFiles, ledger) == {f \in dirFiles : IsMp4(f)}

\* _get_pending_videos, lines 109-111: the files of the directory that are
\* scanned further: they end with ".mp4" and are not in the ledger
PendingFiles(dirFiles, ledger) == {f \in dirFiles : IsMp4(f) /\ f \notin ledger}

\* _get_pending_videos, lines 113-116: the files of one date
Bucket(d, cands) == {f \in cands : timestamp_ok(f) /\ get_video_date(f) = d}

\* the mapping before the loop: defaultdict(list), and no exception
NoGroups == [raised |-> FALSE, groups |-> <<>>]

\* AddToBucket when the list of the date is assigned instead of extended
AddToBucket_Overwrite(groups, d, f) ==
    [x \in DOMAIN groups \cup {d} |-> IF x = d THEN <<f>> ELSE groups[x]]

\* _get_pending_videos, line 116: videos_by_date[video_date].append(path)
AddToBucket(groups, d, f) ==
    [x \in DOMAIN groups \cup {d} |->
        IF x = d
        THEN IF d \in DOMAIN groups THEN Append(groups[d], f) ELSE <<f>>
        ELSE groups[x]]

\* AfterParseError when the exception is not caught
AfterParseError_Abort(acc) == [acc EXCEPT !.raised = TRUE]

\* _get_pending_videos, lines 117-122: the exception of get_video_date is
\* logged and the loop continues with the next file
AfterParseError(acc) == acc

\* _get_pending_videos, lines 109-122: the loop over the listing
RECURSIVE ScanLoop(_, _, _)
ScanLoop(listing, ledger, acc) ==
    IF listing = <<>> \/ acc.raised THEN acc
    ELSE LET f == Head(listing)
         IN  IF f \notin PendingFiles({f}, ledger)
             THEN ScanLoop(Tail(listing), ledger, acc)
             ELSE IF ~timestamp_ok(f)
             THEN ScanLoop(Tail(listing), ledger, AfterParseError(acc))
             ELSE ScanLoop(Tail(listing), ledger,
                           [acc EXCEPT !.groups =
                               AddToBucket(@, get_video_date(f), f)])

\* VideoUploadManager._get_pending_videos on a directory listing (in the
\* order os.listdir gives) and the in-memory ledger
get_pending_videos(listing, ledger) == ScanLoop(listing, ledger, NoGroups)

\* the order of datetime keys
KeyLeq(k1, k2) == k1.day < k2.day \/ (k1.day = k2.day /\ k1.hour <= k2.hour)

\* _upload_merged_video, lines 185-188: sorted(video_files, key=...), a
\* stable sort by get_video_datetime
RECURSIVE InsertSorted(_, _)
InsertSorted(x, s) ==
    IF s = <<>> THEN <<x>>
    ELSE IF KeyLeq(get_video_datetime(s[Len(s)]), get_video_datetime(x))
         THEN Append(s, x)
         ELSE Append(InsertSorted(x, SubSeq(s, 1, Len(s) - 1)), s[Len(s)])

RECURSIVE SortedFiles(_)
SortedFiles(s) ==
    IF s = <<>> THEN <<>>
    ELSE InsertSorted(s[Len(s)], SortedFiles(SubSeq(s, 1, Len(s) - 1)))

\* NeedsFallback when the fallback is tried whatever upload_video returned
NeedsFallback_Always(result) == TRUE

\* _upload_single_video line 146 / _upload_merged_video line 208: the
\* fallback is tried when upload_video returned no video id
NeedsFallback(result) == result = "none"

\* the paths handed to the uploaders and to _safe_delete_file
SourcePath(f) == [kind |-> "source", file |-> f, date |-> 0]

MergedPath(d) == [kind |-> "merged", file |-> "", date |-> d]

NoPath == [kind |-> "nopath", file |-> "", date |-> 0]

NoArgs == [path |-> NoPath, title |-> NoPath, description |-> <<>>]

(***************************************************************************)
(* State.                                                                  *)
(***************************************************************************)
VARIABLES
    pc,              \* the statement the single thread is at
    run,             \* which execution of main() this is
    exists,          \* the source files in video_dir
    tempFiles,       \* the dates whose merged file exists in temp_dir
    logFile,         \* the ledger file, one filename per line
    uploaded_files,  \* VideoUploadManager._uploaded_files
    videos_by_date,  \* the mapping returned by _get_pending_videos
    pending,         \* the dates process_videos has not reached yet
    cur,             \* the date of the group being processed (0: none)
    video_files,     \* the files of that group, in listing order
    sorted_files,    \* _upload_merged_video's sorted_files
    upArgs,          \* path, title, description given to upload_video
    fbArgs,          \* path, title, description given to the fallback
    attempt,         \* upload_video's loop variable
    response,        \* _execute_upload: response is not None
    error,           \* _execute_upload: error is not None
    retry,           \* _execute_upload: retry
    uvResult,        \* how upload_video ended: "id", "none", "raise", "-"
    groupRet,        \* return value of _upload_single / _upload_merged
    service,         \* YouTubeUploader.service is not None
    credentials,     \* YouTubeUploader._credentials
    credFile,        \* the credential file
    apisAvailable,   \* GOOGLE_APIS_AVAILABLE
    fbAttempt,       \* FallbackUploader.upload_video's loop variable
    sleepFor,        \* argument of the time.sleep being executed
    sleepKind,       \* which sleep: "attempt", "chunk", "fallback", "pacing"
    afterSleep,      \* where the thread continues after the sleep
    delQueue,        \* the paths still to be given to _safe_delete_file
    runOutcome,      \* "running", "returned" (stats) or "raised"
    \* ---- history: written by the actions, read by no guard ----
    answered,        \* the platform answered a request of this group with an id
    dupRequest,      \* a request was issued for a group already answered
    confirmed,       \* files whose group upload was confirmed
    primaryCalls,    \* upload_video calls for this group
    fallbackCalls,   \* fallback upload_video calls for this group
    inserts,         \* insert requests of this upload_video call
    chunkErrors,     \* chunk errors of this _execute_upload call
    lastExc,         \* the exception the last attempt ended with
    credOut,         \* what the last direct _build_service call did
    call,            \* a function applied on its own: its input and result
    mergedOk,        \* merge_videos returned True for this group
    ledgerBefore,    \* number of ledger lines when this group started
    succeeded,       \* dates whose group returned True in this run
    failed,          \* dates whose group returned False in this run
    groupStarts,     \* how often the loop of this run entered each date
    stats,           \* the statistics of process_videos
    listed,          \* what os.listdir did in this run: "-", "ok" or "error"
    list_file,       \* the playlist file temp_dir/file_list.txt exists
    merge            \* what the merge_videos call of this group met

vars ==
    <<pc, run, exists, tempFiles, logFile, uploaded_files, videos_by_date,
      pending, cur, video_files, sorted_files, upArgs, fbArgs, attempt,
      response, error, retry, uvResult, groupRet, service,
      credentials, credFile, apisAvailable, fbAttempt, sleepFor, sleepKind,
      afterSleep, delQueue, runOutcome, answered, dupRequest, confirmed,
      primaryCalls, fallbackCalls, inserts, chunkErrors, lastExc, credOut,
      call,
      mergedOk, ledgerBefore, succeeded, failed, groupStarts, stats,
      listed, list_file, merge>>

\* groups of variables, for UNCHANGED
diskVars == <<exists, tempFiles, logFile, uploaded_files>>

credState == <<service, credentials, credFile>>

scanVars == <<videos_by_date, pending>>

runVars == <<run, runOutcome, succeeded, failed, apisAvailable>>

groupVars == <<cur, video_files, sorted_files, mergedOk, ledgerBefore>>

callVars == <<upArgs, fbArgs, primaryCalls, fallbackCalls>>

uvVars == <<attempt, uvResult, inserts, lastExc>>

chunkVars == <<response, error, retry, chunkErrors>>

sleepVars == <<sleepFor, sleepKind, afterSleep>>

probeVars == <<credOut, call>>

tallyVars == <<groupStarts, stats, listed>>

mergeVars == <<list_file, merge>>

\* merge_videos has not been called for the group
NoMerge == [called |-> FALSE, playlist |-> "-", ffmpeg |-> "-", ret |-> "-"]

\* process_videos, lines 265-271: the statistics before the first group
NoStats ==
    [total_processed |-> 0, successful_uploads |-> 0, failed_uploads |-> 0,
     single_videos |-> 0, merged_videos |-> 0]

\* no function has been applied on its own
NoCall == [fn |-> "-"]

\* the environment recorded when _get_credentials was not called
NoEnv ==
    [secrets |-> FALSE, flowOk |-> FALSE, headless |-> FALSE,
     force_manual |-> FALSE, refreshOk |-> FALSE, localOk |-> FALSE,
     manual |-> "ok", saveOk |-> FALSE]

\* the environment as far as a call of _get_credentials with the given
\* trace consulted it; what the call did not look at is recorded as in NoEnv
Consulted(e, trace) ==
    LET did(step) == \E i \in DOMAIN trace : trace[i] = step
        asked == did("secrets_missing") \/ did("read_secrets")
        flows == did("local_server") \/ did("manual")
    IN  [secrets      |-> asked /\ e.secrets,
         flowOk       |-> did("read_secrets") /\ e.flowOk,
         headless     |-> flows /\ e.headless,
         force_manual |-> flows /\ e.force_manual,
         refreshOk    |-> did("refresh") /\ e.refreshOk,
         localOk      |-> did("local_server") /\ e.localOk,
         manual       |-> IF did("manual") THEN e.manual ELSE "ok",
         saveOk       |-> did("save")]

NoCredOut ==
    [n |-> 0, called |-> FALSE, raised |-> FALSE, creds |-> NoCreds,
     trace |-> <<>>, env |-> NoEnv, before |-> NoCreds, after |-> NoCreds,
     svc |-> FALSE, cached |-> NoCreds]

\* the values the locals of a group have before and after the group
GroupLocalsReset ==
    /\ sorted_files' = <<>>
    /\ upArgs' = NoArgs
    /\ fbArgs' = NoArgs
    /\ primaryCalls' = 0
    /\ fallbackCalls' = 0
    /\ attempt' = 0
    /\ uvResult' = "-"
    /\ inserts' = 0
    /\ lastExc' = "-"
    /\ response' = FALSE
    /\ error' = FALSE
    /\ retry' = 0
    /\ chunkErrors' = 0
    /\ groupRet' = FALSE
    /\ fbAttempt' = 0
    /\ delQueue' = <<>>
    /\ answered' = FALSE

\* the state of everything but the program counter, the disk and the call
\* in progress before anything has run
Idle ==
    /\ run = 1
    /\ tempFiles = {}
    /\ logFile = <<>>
    /\ uploaded_files = {}
    /\ videos_by_date = <<>>
    /\ pending = {}
    /\ sorted_files = <<>>
    /\ fbArgs = NoArgs
    /\ attempt = 0
    /\ response = FALSE
    /\ error = FALSE
    /\ retry = 0
    /\ uvResult = "-"
    /\ groupRet = FALSE
    /\ service = FALSE
    /\ credentials = NoCreds
    /\ fbAttempt = 0
    /\ sleepFor = 0
    /\ sleepKind = "-"
    /\ afterSleep = "-"
    /\ delQueue = <<>>
    /\ runOutcome = "running"
    /\ answered = FALSE
    /\ dupRequest = FALSE
    /\ confirmed = {}
    /\ fallbackCalls = 0
    /\ inserts = 0
    /\ chunkErrors = 0
    /\ lastExc = "-"
    /\ credOut = NoCredOut
    /\ mergedOk = FALSE
    /\ ledgerBefore = 0
    /\ succeeded = {}
    /\ failed = {}
    /\ groupStarts = <<>>
    /\ stats = NoStats
    /\ listed = "-"
    /\ list_file = FALSE
    /\ merge = NoMerge

\* main.py 312-325: main() is started on a directory and a credential file
Init ==
    /\ pc = "init"
    /\ exists \in DirListings
    /\ credFile \in CredFileStates
    /\ apisAvailable = TRUE
    /\ cur = 0
    /\ video_files = <<>>
    /\ upArgs = NoArgs
    /\ primaryCalls = 0
    /\ call = NoCall
    /\ Idle

(***************************************************************************)
(* Run level: VideoUploadManager.__init__ and process_videos.              *)
(***************************************************************************)
\* main.py 34-50 and 66-75, youtube_uploader.py 11-20 and 34-37: a new
\* process.  The in-memory ledger is the set of the lines of the ledger
\* file, the uploader has no service yet, and the import of the Google
\* libraries succeeded or not.
Construct ==
    /\ pc = "init"
    /\ uploaded_files' = Range(logFile)
    /\ service' = FALSE
    /\ credentials' = NoCreds
    /\ apisAvailable' \in BOOLEAN
    /\ runOutcome' = "running"
    /\ succeeded' = {}
    /\ failed' = {}
    /\ pc' = "scan"
    /\ UNCHANGED <<run, exists, tempFiles, logFile, scanVars, groupVars,
                   callVars, uvVars, chunkVars, groupRet, credFile, probeVars, tallyVars, mergeVars,
                   fbAttempt, sleepVars, delQueue, answered, dupRequest,
                   confirmed>>

\* ListErrorOutcome when the error of os.listdir is logged and an empty
\* mapping is returned
ListErrorOutcome_Swallowed == "returned"

\* main.py 109 and 307-309: os.listdir raises inside _get_pending_videos,
\* outside its try; process_videos logs the error and raises it again
ListErrorOutcome == "raised"

\* main.py 101-125 and 277-281: the scan.  listOk is FALSE when os.listdir
\* raises, which process_videos re-raises (307-309).  The order of a bucket
\* is the listing order, which the file system chooses.
GetPendingVideos ==
    /\ pc = "scan"
    /\ \E listOk \in BOOLEAN :
         IF ~listOk
         THEN /\ runOutcome' = ListErrorOutcome
              /\ pc' = "run_end"
              /\ groupStarts' = <<>>
              /\ listed' = "error"
              /\ UNCHANGED scanVars
         ELSE /\ listed' = "ok"
              /\ \E listing \in Perms(exists) :
                LET r == get_pending_videos(listing, uploaded_files)
                    dates == DOMAIN r.groups
                IN  IF r.raised
                    THEN /\ runOutcome' = "raised"
                         /\ pc' = "run_end"
                         /\ groupStarts' = <<>>
                         /\ UNCHANGED scanVars
                    ELSE /\ videos_by_date' = r.groups
                         /\ pending' = dates
                         /\ groupStarts' = [d \in dates |-> 0]
                         /\ runOutcome' = IF dates = {} THEN "returned" ELSE "running"
                         /\ pc' = IF dates = {} THEN "run_end" ELSE "loop"
    /\ stats' = NoStats
    /\ UNCHANGED mergeVars
    /\ UNCHANGED <<run, succeeded, failed, apisAvailable, diskVars, groupVars,
                   callVars, uvVars, chunkVars, groupRet, credState, probeVars,
                   fbAttempt, sleepVars, delQueue, answered, dupRequest,
                   confirmed>>

\* GroupRoute when every group is handed to _upload_merged_video
GroupRoute_AlwaysMerge(n) == "merged"

\* process_videos, lines 286 and 293: a group of one file goes to
\* _upload_single_video, any other group to _upload_merged_video
GroupRoute(n) == IF n = 1 THEN "single" ELSE "merged"

\* main.py 283-299: the next group of the mapping; one file is uploaded as
\* it is, several files are merged
StartGroup ==
    /\ pc = "loop"
    /\ pending # {}
    /\ \E d \in pending :
         /\ cur' = d
         /\ video_files' = videos_by_date[d]
         /\ pending' = pending \ {d}
         /\ groupStarts' = [groupStarts EXCEPT ![d] = @ + 1]
         /\ stats' = [stats EXCEPT !.total_processed = @ + Len(videos_by_date[d])]
         /\ UNCHANGED <<listed, mergeVars>>
         /\ pc' = GroupRoute(Len(videos_by_date[d]))
    /\ ledgerBefore' = Len(logFile)
    /\ UNCHANGED <<runVars, diskVars, videos_by_date, sorted_files, mergedOk,
                   callVars,
                   uvVars, chunkVars, groupRet, credState, probeVars, fbAttempt,
                   sleepVars, delQueue, answered, dupRequest, confirmed>>

\* main.py 283, 304-305: the mapping is exhausted, the statistics are returned
ReturnStats ==
    /\ pc = "loop"
    /\ pending = {}
    /\ runOutcome' = "returned"
    /\ videos_by_date' = <<>>
    /\ pc' = "run_end"
    /\ UNCHANGED <<run, succeeded, failed, apisAvailable, diskVars, pending,
                   groupVars, callVars, uvVars, chunkVars, groupRet, credState,
                   probeVars, tallyVars, mergeVars, fbAttempt, sleepVars, delQueue, answered,
                   dupRequest, confirmed>>

\* CountGroup when a failed group of several files is counted as one file
CountGroup_FailedCountsOne(st, n, ret) ==
    IF n = 1
    THEN IF ret
         THEN [st EXCEPT !.successful_uploads = @ + 1, !.single_videos = @ + 1]
         ELSE [st EXCEPT !.failed_uploads = @ + 1]
    ELSE IF ret
         THEN [st EXCEPT !.successful_uploads = @ + n, !.merged_videos = @ + 1]
         ELSE [st EXCEPT !.failed_uploads = @ + 1]

\* process_videos, lines 286-299: the result of a group of n files is added
\* to the statistics
CountGroup(st, n, ret) ==
    IF n = 1
    THEN IF ret
         THEN [st EXCEPT !.successful_uploads = @ + 1, !.single_videos = @ + 1]
         ELSE [st EXCEPT !.failed_uploads = @ + 1]
    ELSE IF ret
         THEN [st EXCEPT !.successful_uploads = @ + n, !.merged_videos = @ + 1]
         ELSE [st EXCEPT !.failed_uploads = @ + n]

\* EndGroup when the failure of a group leaves process_videos as an
\* exception
EndGroup_AbortOnFailure ==
    /\ pc = "group_end"
    /\ succeeded' = IF groupRet THEN succeeded \cup {cur} ELSE succeeded
    /\ failed' = IF groupRet THEN failed ELSE failed \cup {cur}
    /\ stats' = CountGroup(stats, Len(video_files), groupRet)
    /\ merge' = NoMerge
    /\ UNCHANGED <<groupStarts, listed, list_file>>
    /\ sleepFor' = IF groupRet THEN PacingDelay ELSE 0
    /\ sleepKind' = IF groupRet THEN "pacing" ELSE "-"
    /\ afterSleep' = IF groupRet THEN "loop" ELSE "-"
    /\ pc' = IF groupRet THEN "sleep" ELSE "run_end"
    /\ runOutcome' = IF groupRet THEN runOutcome ELSE "raised"
    /\ cur' = 0
    /\ video_files' = <<>>
    /\ mergedOk' = FALSE
    /\ ledgerBefore' = Len(logFile)
    /\ GroupLocalsReset
    /\ UNCHANGED <<run, apisAvailable, diskVars, scanVars,
                   credState, probeVars, dupRequest, confirmed>>

\* EndGroup when time.sleep(2) is only reached after a successful group
EndGroup_PaceOnSuccessOnly ==
    /\ pc = "group_end"
    /\ succeeded' = IF groupRet THEN succeeded \cup {cur} ELSE succeeded
    /\ failed' = IF groupRet THEN failed ELSE failed \cup {cur}
    /\ stats' = CountGroup(stats, Len(video_files), groupRet)
    /\ merge' = NoMerge
    /\ UNCHANGED <<groupStarts, listed, list_file>>
    /\ sleepFor' = IF groupRet THEN PacingDelay ELSE 0
    /\ sleepKind' = IF groupRet THEN "pacing" ELSE "-"
    /\ afterSleep' = IF groupRet THEN "loop" ELSE "-"
    /\ pc' = IF groupRet THEN "sleep" ELSE "loop"
    /\ cur' = 0
    /\ video_files' = <<>>
    /\ mergedOk' = FALSE
    /\ ledgerBefore' = Len(logFile)
    /\ GroupLocalsReset
    /\ UNCHANGED <<run, runOutcome, apisAvailable, diskVars, scanVars,
                   credState, probeVars, dupRequest, confirmed>>

\* main.py 288-302: the group's result is counted, then time.sleep(2); the
\* locals of the group are gone
EndGroup ==
    /\ pc = "group_end"
    /\ succeeded' = IF groupRet THEN succeeded \cup {cur} ELSE succeeded
    /\ failed' = IF groupRet THEN failed ELSE failed \cup {cur}
    /\ stats' = CountGroup(stats, Len(video_files), groupRet)
    /\ merge' = NoMerge
    /\ UNCHANGED <<groupStarts, listed, list_file>>
    /\ sleepFor' = PacingDelay
    /\ sleepKind' = "pacing"
    /\ afterSleep' = "loop"
    /\ pc' = "sleep"
    /\ cur' = 0
    /\ video_files' = <<>>
    /\ mergedOk' = FALSE
    /\ ledgerBefore' = Len(logFile)
    /\ GroupLocalsReset
    /\ UNCHANGED <<run, runOutcome, apisAvailable, diskVars, scanVars,
                   credState, probeVars, dupRequest, confirmed>>

\* time.sleep returns
Sleep ==
    /\ pc = "sleep"
    /\ pc' = afterSleep
    /\ sleepFor' = 0
    /\ sleepKind' = "-"
    /\ afterSleep' = "-"
    /\ lastExc' = "-"
    /\ UNCHANGED <<runVars, diskVars, scanVars, groupVars, callVars, attempt,
                   uvResult, inserts, chunkVars, groupRet, credState, probeVars, tallyVars, mergeVars,
                   fbAttempt, delQueue, answered, dupRequest, confirmed>>

\* main() is executed again on the directory as the last run left it
NextRun ==
    /\ pc = "run_end"
    /\ run < MaxRuns
    /\ run' = run + 1
    /\ pc' = "init"
    /\ UNCHANGED <<runOutcome, succeeded, failed, apisAvailable, diskVars,
                   scanVars, groupVars, callVars, uvVars, chunkVars, groupRet,
                   credState, probeVars, tallyVars, mergeVars, fbAttempt, sleepVars, delQueue,
                   answered, dupRequest, confirmed>>

(***************************************************************************)
(* Group level: _upload_single_video and _upload_merged_video.  Every      *)
(* exception raised inside them is caught by their "except Exception"      *)
(* (main.py 163-165, 233-235), which returns False.                        *)
(***************************************************************************)
\* main.py 137-144: the title is parsed and upload_video is called
SingleTitle ==
    /\ pc = "single"
    /\ LET f == video_files[1]
       IN  IF ~parse_title_ok(f)
           THEN /\ groupRet' = FALSE
                /\ pc' = "group_end"
                /\ UNCHANGED <<upArgs, primaryCalls>>
           ELSE /\ upArgs' = [path |-> SourcePath(f),
                              title |-> [kind |-> "parsed", file |-> f, date |-> 0],
                              description |-> <<>>]
                /\ primaryCalls' = primaryCalls + 1
                /\ pc' = "uv_entry"
                /\ UNCHANGED groupRet
    /\ UNCHANGED <<runVars, diskVars, scanVars, groupVars, fbArgs,
                   fallbackCalls, uvVars, chunkVars, credState, probeVars, tallyVars, mergeVars,
                   fbAttempt, sleepVars, delQueue, answered, dupRequest,
                   confirmed>>

\* what merge_videos can meet: the playlist is written, or open() fails, or
\* a write fails after open() created the file; ffmpeg succeeds, exits
\* with an error (CalledProcessError) or cannot be started; os.remove of
\* the playlist succeeds or raises OSError
MergeEnv ==
    [playlist : {"ok", "open_failed", "write_failed"},
     ffmpeg : {"ok", "failed", "oserror"}, removeOk : BOOLEAN]

\* merge_videos when the exit status of ffmpeg is not checked
merge_videos_IgnoreFailure(inputsOk, listBefore, e) ==
    IF ~inputsOk
    THEN [ret |-> "VideoProcessingError", list_file |-> listBefore,
          output |-> FALSE, playlist |-> "-", ffmpeg |-> "-"]
    ELSE IF e.playlist = "open_failed"
    THEN [ret |-> "VideoProcessingError", list_file |-> listBefore,
          output |-> FALSE, playlist |-> e.playlist, ffmpeg |-> "-"]
    ELSE IF e.playlist = "write_failed"
    THEN [ret |-> "VideoProcessingError", list_file |-> TRUE,
          output |-> FALSE, playlist |-> e.playlist, ffmpeg |-> "-"]
    ELSE [ret |-> IF e.ffmpeg = "oserror" THEN "OSError" ELSE "true",
          list_file |-> ~e.removeOk,
          output |-> e.ffmpeg = "ok",
          playlist |-> e.playlist, ffmpeg |-> e.ffmpeg]

\* VideoProcessor.merge_videos(file_list, output_file, overwrite=True) on
\* a non-empty list: inputsOk tells whether every input exists, listBefore
\* whether a playlist file is there already.  ret is "true" or the
\* exception raised, list_file whether the playlist exists afterwards,
\* output whether ffmpeg wrote the output file.
merge_videos(inputsOk, listBefore, e) ==
    IF ~inputsOk
    THEN [ret |-> "VideoProcessingError", list_file |-> listBefore,
          output |-> FALSE, playlist |-> "-", ffmpeg |-> "-"]
    ELSE IF e.playlist = "open_failed"
    THEN [ret |-> "VideoProcessingError", list_file |-> listBefore,
          output |-> FALSE, playlist |-> e.playlist, ffmpeg |-> "-"]
    ELSE IF e.playlist = "write_failed"
    THEN [ret |-> "VideoProcessingError", list_file |-> TRUE,
          output |-> FALSE, playlist |-> e.playlist, ffmpeg |-> "-"]
    ELSE [ret |-> CASE e.ffmpeg = "ok" -> "true"
                    [] e.ffmpeg = "failed" -> "FFmpegError"
                    [] OTHER -> "OSError",
          list_file |-> ~e.removeOk,
          output |-> e.ffmpeg = "ok",
          playlist |-> e.playlist, ffmpeg |-> e.ffmpeg]

\* main.py 178-193: the files are sorted and merged into the temp file of
\* the date; an exception of merge_videos ends the group with False
MergeVideos ==
    /\ pc = "merged"
    /\ sorted_files' = SortedFiles(video_files)
    /\ \E e \in MergeEnv :
         LET m == merge_videos(Range(video_files) \subseteq exists, list_file, e)
         IN  /\ list_file' = m.list_file
             /\ merge' = [called |-> TRUE, playlist |-> m.playlist,
                          ffmpeg |-> m.ffmpeg, ret |-> m.ret]
             /\ tempFiles' = IF m.output THEN tempFiles \cup {cur} ELSE tempFiles
             /\ IF m.ret = "true"
                THEN /\ mergedOk' = TRUE
                     /\ pc' = "merged_title"
                     /\ UNCHANGED groupRet
                ELSE /\ groupRet' = FALSE
                     /\ pc' = "group_end"
                     /\ UNCHANGED mergedOk
    /\ UNCHANGED <<runVars, exists, logFile, uploaded_files, scanVars, cur,
                   video_files, ledgerBefore, callVars, uvVars, chunkVars, credState,
                   probeVars, tallyVars, fbAttempt, sleepVars, delQueue, answered,
                   dupRequest, confirmed>>

\* main.py 196-205: the title comes from config.merged_video_title_template,
\* the description from the sorted files; upload_video is called with the
\* merged file.  The lookup of a name VideoConfig does not have raises
\* AttributeError.
MergedTitle ==
    /\ pc = "merged_title"
    /\ IF ~ConfigHas("merged_video_title_template")
       THEN /\ groupRet' = FALSE
            /\ pc' = "group_end"
            /\ UNCHANGED <<upArgs, primaryCalls>>
       ELSE /\ upArgs' = [path |-> MergedPath(cur),
                          title |-> [kind |-> "template", file |-> "", date |-> cur],
                          description |-> sorted_files]
            /\ primaryCalls' = primaryCalls + 1
            /\ pc' = "uv_entry"
            /\ UNCHANGED groupRet
    /\ UNCHANGED <<runVars, diskVars, scanVars, groupVars, fbArgs,
                   fallbackCalls, uvVars, chunkVars, credState, probeVars, tallyVars, mergeVars,
                   fbAttempt, sleepVars, delQueue, answered, dupRequest,
                   confirmed>>

\* os.path.exists of a path handed to upload_video
PathExists(path) ==
    IF path.kind = "source" THEN path.file \in exists
    ELSE path.kind = "merged" /\ path.date \in tempFiles

\* the source files a group stands for
GroupFiles == Range(video_files)

\* main.py 146-161 and 207-231: what follows the return of upload_video.
\* A video id confirms the upload; no id starts the fallback; an exception
\* ends the group with False.
AfterPrimary ==
    /\ pc = "uv_ret"
    /\ IF uvResult = "raise"
       THEN /\ groupRet' = FALSE
            /\ pc' = "group_end"
            /\ UNCHANGED <<confirmed, fbArgs, fallbackCalls, fbAttempt>>
       ELSE IF NeedsFallback(uvResult)
       THEN /\ fbArgs' = upArgs
            /\ fallbackCalls' = fallbackCalls + 1
            /\ fbAttempt' = 0
            /\ pc' = "fallback"
            /\ UNCHANGED <<confirmed, groupRet>>
       ELSE /\ confirmed' = confirmed \cup GroupFiles
            /\ pc' = "mark"
            /\ UNCHANGED <<groupRet, fbArgs, fallbackCalls, fbAttempt>>
    /\ response' = FALSE
    /\ error' = FALSE
    /\ retry' = 0
    /\ chunkErrors' = 0
    /\ attempt' = 0
    /\ inserts' = 0
    /\ lastExc' = "-"
    /\ UNCHANGED <<runVars, diskVars, scanVars, groupVars, upArgs,
                   primaryCalls, uvResult, credState, probeVars, tallyVars, mergeVars, sleepVars,
                   delQueue, answered, dupRequest>>

\* FallbackOnFailure when the test is attempt < max_retries
FallbackOnFailure_ExtraAttempt(n) ==
    IF n < MaxRetries
    THEN [again |-> TRUE, sleep |-> RetryDelay]
    ELSE [again |-> FALSE, sleep |-> 0]

\* FallbackUploader.upload_video, lines 446-452: after CalledProcessError
\* in attempt n (0-based) the loop sleeps retry_delay and goes on,
\* or returns False after the last attempt
FallbackOnFailure(n) ==
    IF n < MaxRetries - 1
    THEN [again |-> TRUE, sleep |-> RetryDelay]
    ELSE [again |-> FALSE, sleep |-> 0]

\* FallbackAttempt when the source files are removed after the last failed
\* attempt
FallbackAttempt_DeleteOnFailure ==
    /\ pc = "fallback"
    /\ dupRequest' = (dupRequest \/ answered)
    /\ \E out \in {"ok", "failed", "oserror"} :
         /\ answered' = (answered \/ out = "ok")
         /\ IF out = "ok"
            THEN /\ confirmed' = confirmed \cup GroupFiles
                 /\ pc' = "mark"
                 /\ UNCHANGED <<groupRet, fbAttempt, sleepVars>>
            ELSE IF out = "failed" /\ FallbackOnFailure(fbAttempt).again
            THEN /\ fbAttempt' = fbAttempt + 1
                 /\ sleepFor' = FallbackOnFailure(fbAttempt).sleep
                 /\ sleepKind' = "fallback"
                 /\ afterSleep' = "fallback"
                 /\ pc' = "sleep"
                 /\ UNCHANGED <<groupRet, confirmed>>
            ELSE /\ groupRet' = FALSE
                 /\ pc' = "group_end"
                 /\ UNCHANGED <<confirmed, fbAttempt, sleepVars>>
    /\ exists' = IF pc' = "group_end" THEN exists \ GroupFiles ELSE exists
    /\ UNCHANGED <<runVars, tempFiles, logFile, uploaded_files, scanVars, groupVars, callVars, uvVars,
                   chunkVars, credState, probeVars, tallyVars, mergeVars, delQueue>>

\* youtube_uploader.py 420-455: one subprocess.run of the external tool.
\* It succeeds (return True), fails with CalledProcessError (sleep
\* retry_delay and try again, or return False after the last attempt), or
\* raises another error (the tool is not installed), which the fallback
\* does not catch.
FallbackAttempt ==
    /\ pc = "fallback"
    /\ dupRequest' = (dupRequest \/ answered)
    /\ \E out \in {"ok", "failed", "oserror"} :
         /\ answered' = (answered \/ out = "ok")
         /\ IF out = "ok"
            THEN /\ confirmed' = confirmed \cup GroupFiles
                 /\ pc' = "mark"
                 /\ UNCHANGED <<groupRet, fbAttempt, sleepVars>>
            ELSE IF out = "failed" /\ FallbackOnFailure(fbAttempt).again
            THEN /\ fbAttempt' = fbAttempt + 1
                 /\ sleepFor' = FallbackOnFailure(fbAttempt).sleep
                 /\ sleepKind' = "fallback"
                 /\ afterSleep' = "fallback"
                 /\ pc' = "sleep"
                 /\ UNCHANGED <<groupRet, confirmed>>
            ELSE /\ groupRet' = FALSE
                 /\ pc' = "group_end"
                 /\ UNCHANGED <<confirmed, fbAttempt, sleepVars>>
    /\ UNCHANGED <<runVars, diskVars, scanVars, groupVars, callVars, uvVars,
                   chunkVars, credState, probeVars, tallyVars, mergeVars, delQueue>>

\* main.py 147 / 155 / 220-221: the names handed to _mark_as_uploaded
NamesToMark(files) == files

\* main.py 149 / 157 / 224-226: the paths handed to _safe_delete_file, in
\* order: the source file of a single group; the merged file and then the
\* source files of a merged group
PathsToDelete(files, date) ==
    IF Len(files) = 1 THEN <<SourcePath(files[1])>>
    ELSE <<MergedPath(date)>> \o [i \in 1..Len(files) |-> SourcePath(files[i])]

\* AppendLines when the ledger file is opened with mode "w"
AppendLines_Truncate(log, written) == written

\* main.py 81-83: open(log_path, "a") and one write per name
AppendLines(log, written) == log \o written

\* main.py 77-87: _mark_as_uploaded appends each name to the ledger file and
\* adds it to the set.  k names are written before an IOError ends the loop
\* (k = 0: the file cannot be opened); the error is logged, not raised.
MarkAsUploaded ==
    /\ pc = "mark"
    /\ \E k \in 0..Len(NamesToMark(video_files)) :
         LET written == SubSeq(NamesToMark(video_files), 1, k)
         IN  /\ logFile' = AppendLines(logFile, written)
             /\ uploaded_files' = uploaded_files \cup Range(written)
    /\ delQueue' = PathsToDelete(video_files, cur)
    /\ pc' = "delete"
    /\ UNCHANGED <<runVars, exists, tempFiles, scanVars, groupVars, callVars,
                   uvVars, chunkVars, groupRet, credState, probeVars, tallyVars, mergeVars, fbAttempt,
                   sleepVars, answered, dupRequest, confirmed>>

\* os.remove of a path
Removed(path, files) == IF path.kind = "source" THEN files \ {path.file} ELSE files

RemovedTemp(path, temps) == IF path.kind = "merged" THEN temps \ {path.date} ELSE temps

\* main.py 89-99: _safe_delete_file on the next path.  config.delete_after_upload
\* is looked up first (AttributeError when VideoConfig has no such field,
\* caught by the caller's except Exception: return False); when it is false
\* nothing is removed; os.remove may fail with OSError, which is logged.
\* After the last path the caller returns True.
SafeDeleteFile ==
    /\ pc = "delete"
    /\ delQueue # <<>>
    /\ IF ~ConfigHas("delete_after_upload")
       THEN /\ groupRet' = FALSE
            /\ pc' = "group_end"
            /\ UNCHANGED <<exists, tempFiles, delQueue>>
       ELSE /\ \E enabled \in BOOLEAN, removed \in BOOLEAN :
                 /\ exists' = IF enabled /\ removed
                              THEN Removed(Head(delQueue), exists) ELSE exists
                 /\ tempFiles' = IF enabled /\ removed
                                 THEN RemovedTemp(Head(delQueue), tempFiles)
                                 ELSE tempFiles
            /\ delQueue' = Tail(delQueue)
            /\ groupRet' = (Tail(delQueue) = <<>>)
            /\ pc' = IF Tail(delQueue) = <<>> THEN "group_end" ELSE "delete"
    /\ UNCHANGED <<runVars, logFile, uploaded_files, scanVars, groupVars,
                   callVars, uvVars, chunkVars, credState, probeVars, tallyVars, mergeVars, fbAttempt,
                   sleepVars, answered, dupRequest, confirmed>>

(***************************************************************************)
(* YouTubeUploader.upload_video.                                           *)
(***************************************************************************)
\* the exceptions an attempt can end with
ExcOf(out) ==
    CASE out = "http503" -> [kind |-> "http", status |-> 503, name |-> "http503"]
      [] out = "http403" -> [kind |-> "http", status |-> 403, name |-> "http403"]
      [] out = "auth"    -> [kind |-> "other", status |-> 0, name |-> "auth"]
      [] OTHER           -> [kind |-> "other", status |-> 0, name |-> "error"]

\* youtube_uploader.py 323-340: the except clauses of upload_video applied
\* to an exception of the current attempt
Except(exc) ==
    LET h == OnException(exc, attempt)
    IN  /\ lastExc' = exc.name
        /\ IF h.act = "sleep"
           THEN /\ attempt' = attempt + 1
                /\ sleepFor' = h.sleep
                /\ sleepKind' = "attempt"
                /\ afterSleep' = "uv_attempt"
                /\ pc' = "sleep"
                /\ UNCHANGED uvResult
           ELSE /\ uvResult' = h.act
                /\ pc' = "uv_ret"
                /\ UNCHANGED <<attempt, sleepVars>>

\* youtube_uploader.py 268-302: without the Google libraries upload_video
\* returns None; a missing file raises YouTubeUploadError
UploadVideoEntry ==
    /\ pc = "uv_entry"
    /\ attempt' = 0
    /\ inserts' = 0
    /\ lastExc' = "-"
    /\ IF ~apisAvailable
       THEN uvResult' = "none" /\ pc' = "uv_ret"
       ELSE IF ~PathExists(upArgs.path)
       THEN uvResult' = "raise" /\ pc' = "uv_ret"
       ELSE uvResult' = "-" /\ pc' = "uv_attempt"
    /\ UNCHANGED <<runVars, diskVars, scanVars, groupVars, callVars, chunkVars,
                   groupRet, credState, probeVars, tallyVars, mergeVars, fbAttempt, sleepVars,
                   delQueue, answered, dupRequest, confirmed>>

\* the access token of a record runs out
Expire(c, now) ==
    IF now /\ c.kind = "record" /\ c.token THEN [c EXCEPT !.expired = TRUE] ELSE c

\* NeedCredentials when only self.service is tested
NeedCredentials_ServiceOnly(svc, creds) == ~svc

\* youtube_uploader.py 243: _build_service asks for credentials
NeedCredentials(svc, creds) == ~svc \/ creds.kind = "none" \/ ~CredValid(creds)

\* what a call of _get_credentials on the credential file can yield
CredResults(file) == {get_credentials(file, e) : e \in CredEnv}

\* what build('youtube', 'v3', ...) can do: return the service or raise
BuildOuts == {"ok", "http503", "http403", "error"}

\* youtube_uploader.py 238-246: _build_service on the fields service and
\* _credentials and the credential file; r is the outcome of the
\* _get_credentials call and buildOut that of build(), if they are made.
\* exc is "ok" or the exception raised.
build_service(svc, creds, file, r, buildOut) ==
    IF ~NeedCredentials(svc, creds)
    THEN [exc |-> "ok", called |-> FALSE, service |-> svc,
          credentials |-> creds, file |-> file, got |-> r]
    ELSE IF r.raised
    THEN [exc |-> "auth", called |-> TRUE, service |-> svc,
          credentials |-> creds, file |-> r.file, got |-> r]
    ELSE IF buildOut # "ok"
    THEN [exc |-> buildOut, called |-> TRUE, service |-> svc,
          credentials |-> r.creds, file |-> r.file, got |-> r]
    ELSE [exc |-> "ok", called |-> TRUE, service |-> TRUE,
          credentials |-> r.creds, file |-> r.file, got |-> r]

\* every way a _build_service call can go from the given fields: the access
\* token may have run out since the last call, and the environment decides
\* the outcomes of _get_credentials and build()
BuildServiceOutcomes(svc, creds, file) ==
    UNION { { build_service(svc, Expire(creds, x), Expire(file, x), r, b) :
                r \in CredResults(Expire(file, x)), b \in BuildOuts } :
            x \in BOOLEAN }

\* youtube_uploader.py 304-314: one attempt up to the insert request:
\* _build_service, then videos().insert(...).  An exception goes to the
\* except clauses.
Attempt ==
    /\ pc = "uv_attempt"
    /\ \E b \in BuildServiceOutcomes(service, credentials, credFile) :
         /\ service' = b.service
         /\ credentials' = b.credentials
         /\ credFile' = b.file
         /\ IF b.exc # "ok"
            THEN /\ Except(ExcOf(b.exc))
                 /\ UNCHANGED <<chunkVars, inserts, dupRequest>>
            ELSE /\ response' = FALSE
                 /\ error' = FALSE
                 /\ retry' = 0
                 /\ chunkErrors' = 0
                 /\ inserts' = inserts + 1
                 /\ dupRequest' = (dupRequest \/ answered)
                 /\ pc' = "chunk"
                 /\ UNCHANGED <<attempt, uvResult, sleepVars, lastExc>>
    /\ UNCHANGED <<runVars, diskVars, scanVars, groupVars, callVars, groupRet,
                   probeVars, tallyVars, mergeVars, fbAttempt, delQueue, answered, confirmed>>

\* youtube_uploader.py 344-383 and 316-321: one next_chunk call and the rest
\* of the pass of the while loop.  A non-retriable HttpError is re-raised
\* into upload_video; after "return None" the for loop of upload_video goes
\* on with the next attempt (without a sleep) or ends with None.
NextChunk ==
    /\ pc = "chunk"
    /\ \E out \in ChunkOutcomes :
         /\ IF out = "http403"
            THEN /\ Except(ExcOf(out))
                 /\ UNCHANGED <<chunkVars, answered>>
            ELSE LET st == ChunkStep(error, retry, out)
                     next == IF st.response THEN "uv_ret" ELSE "chunk"
                 IN  /\ response' = st.response
                     /\ error' = st.error
                     /\ retry' = st.retry
                     /\ chunkErrors' = IF out \in {"http503", "error"}
                                       THEN chunkErrors + 1 ELSE chunkErrors
                     /\ answered' = (answered \/ out = "response")
                     /\ UNCHANGED lastExc
                     /\ IF st.giveUp
                        THEN IF attempt < MaxRetries - 1
                             THEN /\ attempt' = attempt + 1
                                  /\ pc' = "uv_attempt"
                                  /\ UNCHANGED <<uvResult, sleepVars>>
                             ELSE /\ uvResult' = "none"
                                  /\ pc' = "uv_ret"
                                  /\ UNCHANGED <<attempt, sleepVars>>
                        ELSE /\ uvResult' = IF st.response THEN "id" ELSE uvResult
                             /\ UNCHANGED attempt
                             /\ IF st.sleep > 0
                                THEN /\ sleepFor' = st.sleep
                                     /\ sleepKind' = "chunk"
                                     /\ afterSleep' = next
                                     /\ pc' = "sleep"
                                ELSE /\ pc' = next
                                     /\ UNCHANGED sleepVars
    /\ UNCHANGED <<runVars, diskVars, scanVars, groupVars, callVars, groupRet,
                   credState, probeVars, tallyVars, mergeVars, fbAttempt, delQueue, dupRequest,
                   confirmed, inserts>>

Next ==
    \/ Construct
    \/ GetPendingVideos
    \/ StartGroup
    \/ ReturnStats
    \/ SingleTitle
    \/ MergeVideos
    \/ MergedTitle
    \/ UploadVideoEntry
    \/ Attempt
    \/ NextChunk
    \/ AfterPrimary
    \/ FallbackAttempt
    \/ MarkAsUploaded
    \/ SafeDeleteFile
    \/ EndGroup
    \/ Sleep
    \/ NextRun

Spec == Init /\ [][Next]_vars

(***************************************************************************)
(* The uploader alone: _build_service called directly, as                  *)
(* simple_auth_test.py and get_video_info do, on every state of the        *)
(* credential file.                                                        *)
(***************************************************************************)
\* simple_auth_test.py 37-42 and youtube_uploader.py 238-246: a direct call
\* of _build_service; what _get_credentials did is recorded in credOut.
\* Without the Google libraries the call raises YouTubeUploadError at once.
BuildService ==
    /\ pc = "auth_test"
    /\ credOut.n < MaxBuildCalls
    /\ IF ~apisAvailable
       THEN /\ credOut' = [NoCredOut EXCEPT !.n = credOut.n + 1]
            /\ UNCHANGED credState
       ELSE \E x \in BOOLEAN, e \in CredEnv, bo \in BuildOuts :
              LET f == Expire(credFile, x)
                  b == build_service(service, Expire(credentials, x), f,
                                     get_credentials(f, e), bo)
              IN  /\ service' = b.service
                  /\ credentials' = b.credentials
                  /\ credFile' = b.file
                  /\ credOut' =
                       IF b.called
                       THEN [n |-> credOut.n + 1, called |-> TRUE,
                             raised |-> b.got.raised, creds |-> b.got.creds,
                             trace |-> b.got.trace,
                             env |-> Consulted(e, b.got.trace),
                             before |-> f, after |-> b.file,
                             svc |-> service,
                             cached |-> Expire(credentials, x)]
                       ELSE [NoCredOut EXCEPT !.n = credOut.n + 1,
                                              !.svc = service,
                                              !.cached = Expire(credentials, x)]
    /\ UNCHANGED <<pc, runVars, diskVars, scanVars, groupVars, callVars,
                   uvVars, chunkVars, groupRet, fbAttempt, sleepVars, delQueue,
                   answered, dupRequest, confirmed, call, tallyVars, mergeVars>>

InitCred ==
    /\ pc = "auth_test"
    /\ exists = {}
    /\ credFile \in CredFileStates
    /\ apisAvailable \in BOOLEAN
    /\ cur = 0
    /\ video_files = <<>>
    /\ upArgs = NoArgs
    /\ primaryCalls = 0
    /\ call = NoCall
    /\ Idle

NextCred == BuildService

SpecCred == InitCred /\ [][NextCred]_vars

(***************************************************************************)
(* _get_pending_videos on its own: one call on a directory listing in any  *)
(* order os.listdir may give it and on an in-memory ledger.  The call and  *)
(* what it returned are kept in the variable call.                         *)
(***************************************************************************)
\* every variable but call
stateVars ==
    <<pc, runVars, diskVars, scanVars, groupVars, callVars, uvVars,
      chunkVars, groupRet, fbAttempt, sleepVars, delQueue, answered,
      dupRequest, confirmed, credState, credOut, tallyVars, mergeVars>>

\* the listings of os.listdir: the files of a directory, each once, in any
\* order
Listings == UNION {Perms(S) : S \in SUBSET Files}

\* the ledgers the scan is called with
ScanLedgers == SUBSET {"a", "b"}

\* the state of every variable but pc and call when a function is applied
\* on its own
Standalone ==
    /\ exists = {}
    /\ credFile = NoCreds
    /\ apisAvailable = TRUE
    /\ cur = 0
    /\ video_files = <<>>
    /\ upArgs = NoArgs
    /\ primaryCalls = 0
    /\ Idle

InitScan ==
    /\ pc = "scan_call"
    /\ \E l \in Listings, u \in ScanLedgers :
         call = [fn |-> "_get_pending_videos", listing |-> l, ledger |-> u,
                 ret |-> NoGroups]
    /\ Standalone

ApplyScan ==
    /\ pc = "scan_call"
    /\ call' = [call EXCEPT !.ret = get_pending_videos(call.listing, call.ledger)]
    /\ pc' = "scan_ret"
    /\ UNCHANGED <<runVars, diskVars, scanVars, groupVars, callVars, uvVars,
                   chunkVars, groupRet, fbAttempt, sleepVars, delQueue,
                   answered, dupRequest, confirmed, credState, credOut, tallyVars, mergeVars>>

NextScan == ApplyScan

SpecScan == InitScan /\ [][NextScan]_vars

(***************************************************************************)
(* FilenameParser.get_video_date on its own, on calendar timestamps: the   *)
(* first segment of the filename as strptime reads it, a record of year,   *)
(* month, day, hour, minute and second, and the configured cutoff hour.    *)
(* datetime arithmetic works on proleptic Gregorian ordinals, day 1 being  *)
(* 0001-01-01.                                                             *)
(***************************************************************************)
Years == {2023, 2024}

IsLeap(y) == y % 4 = 0 /\ (y % 100 # 0 \/ y % 400 = 0)

DaysInMonth(y, m) ==
    IF m = 2 THEN (IF IsLeap(y) THEN 29 ELSE 28)
    ELSE IF m \in {4, 6, 9, 11} THEN 30 ELSE 31

\* the number of days before January 1st of year y
DaysBeforeYear(y) ==
    (y - 1) * 365 + ((y - 1) \div 4) - ((y - 1) \div 100) + ((y - 1) \div 400)

\* the number of days of year y before the first day of month m
RECURSIVE DaysBeforeMonth(_, _)
DaysBeforeMonth(y, m) ==
    IF m = 1 THEN 0 ELSE DaysBeforeMonth(y, m - 1) + DaysInMonth(y, m - 1)

\* date.toordinal
ToOrdinal(dt) == DaysBeforeYear(dt.y) + DaysBeforeMonth(dt.y, dt.mo) + dt.d

\* date.fromordinal, for the ordinals of Years and of the year before
FromOrdinal(n) ==
    LET y  == CHOOSE yy \in Years \cup {x - 1 : x \in Years} :
                 DaysBeforeYear(yy) < n /\ n <= DaysBeforeYear(yy + 1)
        r  == n - DaysBeforeYear(y)
        mo == CHOOSE m \in 1..12 :
                 DaysBeforeMonth(y, m) < r /\ r <= DaysBeforeMonth(y, m) + DaysInMonth(y, m)
    IN  [y |-> y, mo |-> mo, d |-> r - DaysBeforeMonth(y, mo)]

\* the timestamps strptime("%Y-%m-%d %H-%M-%S") accepts, sampled at the
\* ends of the months, around the usual cutoff and at the ends of the day
Timestamps ==
    {ts \in [y : Years, mo : 1..12, d : {1, 2, 28, 29, 30, 31},
             h : {0, 3, 4, 5, 23}, mi : {0, 59}, s : {0, 59}] :
        ts.d <= DaysInMonth(ts.y, ts.mo)}

\* the values of config.early_morning_cutoff
Cutoffs == {0, 4, 5, 24}

\* get_video_datetime(filename).date() with the cutoff of the configuration:
\* the day is moved by ShiftEarly, the time of day is kept
get_video_date_at(ts, cutoff) ==
    FromOrdinal(ShiftEarly(ToOrdinal(ts), ts.h, cutoff).day)

NoDate == [y |-> 0, mo |-> 0, d |-> 0]

InitParse ==
    /\ pc = "parse_call"
    /\ \E ts \in Timestamps, c \in Cutoffs :
         call = [fn |-> "get_video_date", ts |-> ts, cutoff |-> c, ret |-> NoDate]
    /\ Standalone

ApplyParse ==
    /\ pc = "parse_call"
    /\ call' = [call EXCEPT !.ret = get_video_date_at(call.ts, call.cutoff)]
    /\ pc' = "parse_ret"
    /\ UNCHANGED <<runVars, diskVars, scanVars, groupVars, callVars, uvVars,
                   chunkVars, groupRet, fbAttempt, sleepVars, delQueue,
                   answered, dupRequest, confirmed, credState, credOut, tallyVars, mergeVars>>

NextParse == ApplyParse

SpecParse == InitParse /\ [][NextParse]_vars

(***************************************************************************)
(* _create_merged_description on its own.  Durations are floats; they are  *)
(* counted here in half seconds, so that 3 stands for 1.5 s: sums of such  *)
(* values are exact in floating point and round() meets its ties.          *)
(***************************************************************************)
\* round(x) of Python 3 on x = u half seconds: to the nearest whole second,
\* a tie going to the even one
RoundHalfEven(u) ==
    IF u % 2 = 0 THEN u \div 2
    ELSE IF (u \div 2) % 2 = 0 THEN u \div 2 ELSE (u \div 2) + 1

\* format_time with int(seconds) in place of int(round(seconds))
format_time_Truncate(u) ==
    LET seconds == u \div 2
        hours   == seconds \div 3600
        minutes == (seconds % 3600) \div 60
        secs    == seconds % 60
    IN  IF hours > 0 THEN <<hours, minutes, secs>> ELSE <<minutes, secs>>

\* VideoProcessor.format_time: the fields of "HH:MM:SS", or of "MM:SS" when
\* the hours are zero
format_time(u) ==
    LET seconds == RoundHalfEven(u)
        hours   == seconds \div 3600
        minutes == (seconds % 3600) \div 60
        secs    == seconds % 60
    IN  IF hours > 0 THEN <<hours, minutes, secs>> ELSE <<minutes, secs>>

\* what get_video_duration gives for a clip: a duration or FFmpegError
Durations == {0, 1, 2, 3, 7199}

DurationOutcomes ==
    {[raised |-> FALSE, d |-> x] : x \in Durations} \cup {[raised |-> TRUE, d |-> 0]}

\* _create_merged_description, lines 242-254: the loop over sorted_files,
\* from clip i on; acc holds description_lines and offset
RECURSIVE DescriptionLoop(_, _, _, _)
DescriptionLoop(files, durs, i, acc) ==
    IF i > Len(files) THEN acc
    ELSE LET line == [offset |-> format_time(acc.offset), clip |-> files[i]]
             withLine == [acc EXCEPT !.lines = Append(@, line)]
         IN  IF durs[i].raised
             THEN DescriptionLoop(files, durs, i + 1, withLine)
             ELSE DescriptionLoop(files, durs, i + 1,
                                  [withLine EXCEPT !.offset = @ + durs[i].d])

\* VideoUploadManager._create_merged_description: the lines of the
\* description, and the offset when the loop ends
create_merged_description(files, durs) ==
    DescriptionLoop(files, durs, 1, [lines |-> <<>>, offset |-> 0])

\* the ordered lists the description is built for
ClipLists == UNION {Perms(S) : S \in SUBSET {"a", "b", "c"}}

InitDescr ==
    /\ pc = "descr_call"
    /\ \E fs \in ClipLists :
         \E ds \in [DOMAIN fs -> DurationOutcomes] :
            call = [fn |-> "_create_merged_description", files |-> fs,
                    durs |-> ds, ret |-> [lines |-> <<>>, offset |-> 0]]
    /\ Standalone

ApplyDescr ==
    /\ pc = "descr_call"
    /\ call' = [call EXCEPT !.ret = create_merged_description(call.files, call.durs)]
    /\ pc' = "descr_ret"
    /\ UNCHANGED <<runVars, diskVars, scanVars, groupVars, callVars, uvVars,
                   chunkVars, groupRet, fbAttempt, sleepVars, delQueue,
                   answered, dupRequest, confirmed, credState, credOut, tallyVars, mergeVars>>

NextDescr == ApplyDescr

SpecDescr == InitDescr /\ [][NextDescr]_vars

(***************************************************************************)
(* FilenameParser.parse_title on its own.  A filename is a sequence of     *)
(* characters; str.split, str.lower and str.join are computed character by *)
(* character.                                                              *)
(***************************************************************************)
\* s has sep at position i
Occurs(s, sep, i) ==
    /\ i + Len(sep) - 1 <= Len(s)
    /\ SubSeq(s, i, i + Len(sep) - 1) = sep

\* str.split(sep): the parts between the occurrences of sep, found from the
\* left without overlap; i is the position looked at, start the position
\* where the current part began
RECURSIVE SplitFrom(_, _, _, _)
SplitFrom(s, sep, i, start) ==
    IF i + Len(sep) - 1 > Len(s) THEN <<SubSeq(s, start, Len(s))>>
    ELSE IF Occurs(s, sep, i)
         THEN <<SubSeq(s, start, i - 1)>> \o
              SplitFrom(s, sep, i + Len(sep), i + Len(sep))
         ELSE SplitFrom(s, sep, i + 1, start)

split(s, sep) == SplitFrom(s, sep, 1, 1)

\* str.split() without argument: the runs of characters other than
\* whitespace; word is the run being read
RECURSIVE WordsFrom(_, _, _)
WordsFrom(s, i, word) ==
    LET done == IF word = <<>> THEN <<>> ELSE <<word>>
    IN  IF i > Len(s) THEN done
        ELSE IF s[i] = " " THEN done \o WordsFrom(s, i + 1, <<>>)
        ELSE WordsFrom(s, i + 1, Append(word, s[i]))

split_whitespace(s) == WordsFrom(s, 1, <<>>)

\* str.lower on one character
LowerChar(c) ==
    CASE c = "A" -> "a" [] c = "B" -> "b" [] c = "C" -> "c" [] c = "R" -> "r"
      [] OTHER -> c

lower(s) == [i \in DOMAIN s |-> LowerChar(s[i])]

\* sep.join(parts)
RECURSIVE join(_, _)
join(sep, parts) ==
    IF parts = <<>> THEN <<>>
    ELSE IF Len(parts) = 1 THEN parts[1]
    ELSE parts[1] \o sep \o join(sep, Tail(parts))

Dash == <<" ", "-", " ">>

Paren == <<" ", "(">>

\* parse_title when one activity word is enough
parse_title_OneWord(filename) ==
    LET parts == split(filename, Dash)
    IN  IF Len(parts) < 3 THEN [raised |-> TRUE, title |-> <<>>]
        ELSE LET username == parts[2]
                 activity_part == split(parts[3], Paren)[1]
                 activity_words == split_whitespace(activity_part)
             IN  IF Len(activity_words) < 1
                 THEN [raised |-> TRUE, title |-> <<>>]
                 ELSE [raised |-> FALSE,
                       title |-> username \o <<" ">> \o
                           lower(join(<<" ">>,
                               SubSeq(activity_words, 1, IF Len(activity_words) < 2 THEN 1 ELSE 2)))]

\* FilenameParser.parse_title: raised stands for InvalidFilenameError, in
\* which the except clause wraps every exception
parse_title(filename) ==
    LET parts == split(filename, Dash)
    IN  IF Len(parts) < 3 THEN [raised |-> TRUE, title |-> <<>>]
        ELSE LET username == parts[2]
                 activity_part == split(parts[3], Paren)[1]
                 activity_words == split_whitespace(activity_part)
             IN  IF Len(activity_words) < 2
                 THEN [raised |-> TRUE, title |-> <<>>]
                 ELSE [raised |-> FALSE,
                       title |-> username \o <<" ">> \o
                           lower(join(<<" ">>, SubSeq(activity_words, 1, 2)))]

\* the texts the filenames are put together from, joined with " - "
SegmentTexts ==
    {
     <<>>,                                                   \* ""
     <<"A">>,                                                \* "A"
     <<"R", "b">>,                                           \* "Rb"
     <<"A", "b", " ", "c">>,                                 \* "Ab c"
     <<"b">>,                                                \* "b"
     <<"R", "a", "i", "d", " ", "B", "o", "s", "s", " ", "(", "x", ")">>, \* "Raid Boss (x)"
     <<"b", " ", " ", "C", " ", "d">>,                       \* "b  C d"
     <<" ", "(", "x", ")">>,                                 \* " (x)"
     <<"b", " ", "(", "c", " ", "d">>,                       \* "b (c d"
     <<"a", "-", "b", " ", "c">>,                            \* "a-b c"
     <<"a", " ", "-", "b">>,                                 \* "a -b"
     <<"b", " ", "c", ".", "x">>,                            \* "b c.x"
     <<" ", "b">>                                            \* " b"
    }

\* the filenames parse_title is called with: one to four texts
Filenames ==
    {join(Dash, p) : p \in UNION {[1..n -> SegmentTexts] : n \in 1..4}}

InitTitle ==
    /\ pc = "title_call"
    /\ \E name \in Filenames :
         call = [fn |-> "parse_title", filename |-> name,
                 ret |-> [raised |-> FALSE, title |-> <<>>]]
    /\ Standalone

ApplyTitle ==
    /\ pc = "title_call"
    /\ call' = [call EXCEPT !.ret = parse_title(call.filename)]
    /\ pc' = "title_ret"
    /\ UNCHANGED <<runVars, diskVars, scanVars, groupVars, callVars, uvVars,
                   chunkVars, groupRet, fbAttempt, sleepVars, delQueue,
                   answered, dupRequest, confirmed, credState, credOut,
                   tallyVars, mergeVars>>

NextTitle == ApplyTitle

SpecTitle == InitTitle /\ [][NextTitle]_vars

(***************************************************************************)
(* format_time as text.  The string is a tuple of characters, as in        *)
(* parse_title; the input of the call is a whole number of seconds.        *)
(***************************************************************************)
DigitChars == <<"0", "1", "2", "3", "4", "5", "6", "7", "8", "9">>

\* the decimal digits of a non-negative integer, as "d" prints them
RECURSIVE Decimal(_)
Decimal(n) ==
    IF n < 10 THEN <<DigitChars[n + 1]>>
    ELSE Append(Decimal(n \div 10), DigitChars[(n % 10) + 1])

\* Pad2 when the format is "d" and not "02d"
Pad2_Unpadded(n) == Decimal(n)

\* the format specification "02d": at least two characters, filled with
\* zeros on the left
Pad2(n) == IF n < 10 THEN <<"0">> \o Decimal(n) ELSE Decimal(n)

\* format_time, lines 105-108: the f-strings put ":" between the fields
FormatFields(fields) == join(<<":">>, [i \in DOMAIN fields |-> Pad2(fields[i])])

\* VideoProcessor.format_time on a whole number of seconds; format_time
\* takes its argument in half seconds
format_time_text(s) == FormatFields(format_time(2 * s))

\* the whole seconds format_time is applied to: every value of the first
\* two minutes, and the values around each change of the number of digits
\* or of fields
WholeSeconds ==
    (0..119) \cup {599, 600, 3599, 3600, 3601, 3659, 3660, 35999, 36000,
                   86399, 86400, 359999, 360000, 360001}

InitFormat ==
    /\ pc = "format_call"
    /\ \E s \in WholeSeconds :
         call = [fn |-> "format_time", seconds |-> s, ret |-> <<>>]
    /\ Standalone

ApplyFormat ==
    /\ pc = "format_call"
    /\ call' = [call EXCEPT !.ret = format_time_text(call.seconds)]
    /\ pc' = "format_ret"
    /\ UNCHANGED <<runVars, diskVars, scanVars, groupVars, callVars, uvVars,
                   chunkVars, groupRet, fbAttempt, sleepVars, delQueue,
                   answered, dupRequest, confirmed, credState, credOut,
                   tallyVars, mergeVars>>

NextFormat == ApplyFormat

SpecFormat == InitFormat /\ [][NextFormat]_vars

(***************************************************************************)
(* One call of YouTubeUploader.upload_video on its own, for a file that    *)
(* exists or not, with or without the Google libraries, on every state of  *)
(* the credential file.  The call has ended when pc = "uv_ret".            *)
(***************************************************************************)
InitUpload ==
    /\ pc = "uv_entry"
    /\ exists \in {{}, {"a"}}
    /\ credFile \in CredFileStates
    /\ apisAvailable \in BOOLEAN
    /\ cur = get_video_date("a")
    /\ video_files = <<"a">>
    /\ upArgs = [path |-> SourcePath("a"),
                 title |-> [kind |-> "parsed", file |-> "a", date |-> 0],
                 description |-> <<>>]
    /\ primaryCalls = 1
    /\ call = NoCall
    /\ Idle

NextUpload ==
    \/ UploadVideoEntry
    \/ Attempt
    \/ NextChunk
    \/ Sleep

SpecUpload == InitUpload /\ [][NextUpload]_vars

\* every next_chunk call, every time.sleep and every library call returns
FairUpload == SpecUpload /\ WF_vars(NextUpload)

(***************************************************************************)
(* One execution of main() on a directory with a file of its own day ("a") *)
(* and two files of one day ("b", "c"), under the assumption that every    *)
(* call the thread makes returns or raises.                                *)
(***************************************************************************)
InitGroups ==
    /\ pc = "init"
    /\ exists = {"a", "b", "c"}
    /\ credFile \in CredFileStates
    /\ apisAvailable = TRUE
    /\ cur = 0
    /\ video_files = <<>>
    /\ upArgs = NoArgs
    /\ primaryCalls = 0
    /\ call = NoCall
    /\ Idle

NextGroups ==
    \/ Construct
    \/ GetPendingVideos
    \/ StartGroup
    \/ ReturnStats
    \/ SingleTitle
    \/ MergeVideos
    \/ MergedTitle
    \/ UploadVideoEntry
    \/ Attempt
    \/ NextChunk
    \/ AfterPrimary
    \/ FallbackAttempt
    \/ MarkAsUploaded
    \/ SafeDeleteFile
    \/ EndGroup
    \/ Sleep

SpecGroups == InitGroups /\ [][NextGroups]_vars

\* the single thread keeps running until main() ends
FairGroups == SpecGroups /\ WF_vars(NextGroups)

(***************************************************************************)
(* Credentials.                                                            *)
(***************************************************************************)
\* C1: whatever the credential file holds and however refresh and
\* authorization go, a _get_credentials call that does not raise
\* AuthenticationError returns a record that is valid.
C1_ReturnsValidOrRaises ==
    credOut.called /\ ~credOut.raised => CredValid(credOut.creds)

(***************************************************************************)
(* Uploads of one group.                                                   *)
(***************************************************************************)
\* C2: once the platform has answered an upload request of a group with a
\* video id, no further upload request is issued for that group, neither an
\* insert by the retry loops of the uploader nor a run of the fallback tool.
C2_NoDuplicateUpload == ~dupRequest

(***************************************************************************)
(* The ledger.                                                             *)
(***************************************************************************)
\* the thread is issuing, or about to issue, an upload request for the
\* current group
Requesting == pc \in {"uv_entry", "uv_attempt", "chunk", "fallback"}

\* the files of the mapping _get_pending_videos returned
Scanned(v) == UNION {Range(v[d]) : d \in DOMAIN v}

\* the scan step: what it returns holds no name of the ledger file
ScanExcludesLedger ==
    pc = "scan" /\ pc' = "loop" => Scanned(videos_by_date') \cap Range(logFile) = {}

LedgerGrows ==
    /\ Len(logFile') >= Len(logFile)
    /\ SubSeq(logFile', 1, Len(logFile)) = logFile

\* a scan does not return a marked file that is still in the directory
ScanSkipsMarked ==
    pc = "scan" /\ pc' = "loop" =>
        \A f \in exists : f \in Range(logFile) => f \notin Scanned(videos_by_date')

C5_SingleFileSuccess ==
    (/\ pc = "group_end"
     /\ Len(video_files) = 1
     /\ uvResult = "id"
     /\ video_files[1] \in uploaded_files)
    => /\ logFile = SubSeq(logFile, 1, ledgerBefore) \o <<video_files[1]>>
       /\ video_files[1] \notin exists
       /\ fallbackCalls = 0
       /\ groupRet

\* an upload of the merged file of the current group was refused: the
\* transport raised, or it declined and the fallback did not succeed
UploadRefused == primaryCalls > 0 /\ ~answered

C7_OneFallbackPerDecline ==
    /\ primaryCalls <= 1
    /\ fallbackCalls <= 1
    /\ (fallbackCalls = 1 =>
          uvResult = "none" /\ primaryCalls = 1 /\ fbArgs = upArgs)
    /\ (pc \in {"fallback", "mark", "delete", "group_end"} /\ uvResult = "none"
          => fallbackCalls = 1)

\* a group has ended after a decline and one fallback call with the
\* arguments of the primary call
C7_Witness ==
    /\ pc = "group_end"
    /\ uvResult = "none"
    /\ primaryCalls = 1
    /\ fallbackCalls = 1
    /\ fbArgs = upArgs
    /\ upArgs.path = SourcePath("a")

\* C8: when upload_video raises its upload error for a non-retriable API
\* failure, the orchestrator goes on to the fallback uploader.
C8_UploadErrorTriggersFallback ==
    [][pc = "uv_ret" /\ uvResult = "raise" /\ lastExc = "http403"
         => pc' = "fallback" /\ fallbackCalls' = 1]_vars

(***************************************************************************)
(* One upload_video call.                                                  *)
(***************************************************************************)
\* C9 as stated: an exception of an attempt that is not an HttpError with a
\* retriable status, an AuthenticationError included, propagates at once:
\* upload_video raises, with no further attempt and no backoff sleep.
C9_NonRetriablePropagates ==
    lastExc \in {"http403", "auth", "error"} => pc = "uv_ret" /\ uvResult = "raise"

\* C9 amended: an HttpError with a non-retriable status propagates at once.
\* Any other exception that reaches the except clauses, AuthenticationError
\* included, is followed by the backoff sleep and another attempt, and is
\* raised only when it happens in the last attempt.
C9_OnlyHttpPropagatesAtOnce ==
    /\ (lastExc = "http403" => pc = "uv_ret" /\ uvResult = "raise")
    /\ (lastExc \in {"auth", "error"} =>
          \/ /\ pc = "sleep"
             /\ sleepKind = "attempt"
             /\ afterSleep = "uv_attempt"
             /\ attempt \in 1..(MaxRetries - 1)
             /\ sleepFor = RetryDelay * Pow2(attempt - 1)
          \/ /\ pc = "uv_ret"
             /\ uvResult = "raise"
             /\ attempt = MaxRetries - 1)

\* an AuthenticationError of the last attempt is raised after the earlier
\* attempts were retried
C9_Witness ==
    /\ pc = "uv_ret"
    /\ uvResult = "raise"
    /\ lastExc = "auth"
    /\ attempt = MaxRetries - 1

\* the counters of one upload_video call stay within the retry budget
RetryBudget ==
    /\ attempt <= MaxRetries - 1
    /\ inserts <= MaxRetries
    /\ chunkErrors <= MaxRetries + 1
    /\ retry <= MaxRetries + 1

\* a retriable-status error of attempt k (counted from 1) is followed, for
\* k < max_retries, by a sleep of retry_delay * 2^(k-1) and attempt k+1, and
\* ends the call with None for k = max_retries
RetriableBackoff ==
    lastExc = "http503" =>
        \/ /\ pc = "sleep"
           /\ sleepKind = "attempt"
           /\ afterSleep = "uv_attempt"
           /\ attempt \in 1..(MaxRetries - 1)
           /\ sleepFor = RetryDelay * Pow2(attempt - 1)
        \/ /\ pc = "uv_ret"
           /\ uvResult = "none"
           /\ attempt = MaxRetries - 1

\* C10: one upload_video call issues at most max_retries insert requests,
\* each _execute_upload sees at most max_retries + 1 chunk errors, a
\* retriable-status error on attempt k < max_retries is followed by a sleep
\* of retry_delay * 2^(k-1) and another attempt, and the call ends (id, None
\* or exception) when every chunk call and every sleep returns.
C10_BoundedRetries ==
    /\ [](RetryBudget /\ RetriableBackoff)
    /\ <>(pc = "uv_ret")

\* the second retriable-status error is followed by a sleep of twice the
\* retry delay
C10_Witness ==
    /\ pc = "sleep"
    /\ sleepKind = "attempt"
    /\ lastExc = "http503"
    /\ attempt = MaxRetries - 1
    /\ sleepFor = RetryDelay * Pow2(MaxRetries - 2)

\* the timestamp parsed from the filename, before any adjustment
RecordedAt(f) == [day |-> FileInfo[f].day, hour |-> FileInfo[f].hour]

\* C12: the files of a bucket are merged in non-decreasing order of the
\* timestamp parsed from their names (the recorded date and time), also
\* when the bucket holds an early-morning clip of the next calendar day.
C12_MergeOrderChronological ==
    \A i, j \in DOMAIN sorted_files :
        i < j => KeyLeq(RecordedAt(sorted_files[i]), RecordedAt(sorted_files[j]))
\* the places of a returned mapping: a bucket and a position in it
Slots(groups) ==
    UNION {{<<d, i>> : i \in DOMAIN groups[d]} : d \in DOMAIN groups}

\* the files a scan has to group: in the listing, ".mp4", not in the ledger
\* and with a timestamp that parses
Groupable(listing, ledger) ==
    {f \in Range(listing) : IsMp4(f) /\ f \notin ledger /\ timestamp_ok(f)}

\* C11: the mapping returned by _get_pending_videos is a partition of the
\* pending .mp4 files with a parsable timestamp by effective date: all
\* files of a bucket have the effective date of the bucket, so no bucket
\* mixes dates and no date is split over two buckets, and every such file
\* is at exactly one place of exactly one bucket, and no other file is.
C11_PartitionByDate ==
    (call.fn = "_get_pending_videos" /\ pc = "scan_ret") =>
        LET g == call.ret.groups
        IN  /\ \A s \in Slots(g) :
                /\ g[s[1]][s[2]] \in Groupable(call.listing, call.ledger)
                /\ get_video_date(g[s[1]][s[2]]) = s[1]
            /\ \A s1, s2 \in Slots(g) :
                get_video_date(g[s1[1]][s1[2]]) = get_video_date(g[s2[1]][s2[2]])
                    <=> s1[1] = s2[1]
            /\ \A f \in Groupable(call.listing, call.ledger) :
                Cardinality({s \in Slots(g) : g[s[1]][s[2]] = f}) = 1

\* a scan that returned two buckets, one of them with a late-evening clip
\* and the early-morning clip of the next day
C11_Witness ==
    /\ call.fn = "_get_pending_videos"
    /\ pc = "scan_ret"
    /\ Cardinality(DOMAIN call.ret.groups) >= 2
    /\ \E d \in DOMAIN call.ret.groups :
         Range(call.ret.groups[d]) = {"b", "c"}

\* the calendar date of a timestamp
DateOf(ts) == [y |-> ts.y, mo |-> ts.mo, d |-> ts.d]

\* the calendar day before a date, by the calendar's rules
PrevDay(dt) ==
    IF dt.d > 1 THEN [dt EXCEPT !.d = dt.d - 1]
    ELSE IF dt.mo > 1
         THEN [y |-> dt.y, mo |-> dt.mo - 1, d |-> DaysInMonth(dt.y, dt.mo - 1)]
         ELSE [y |-> dt.y - 1, mo |-> 12, d |-> 31]

\* C13: for every valid timestamp and every cutoff hour the effective date
\* is the day before the timestamp's calendar date when the hour is
\* strictly less than the cutoff, and the timestamp's date otherwise, also
\* across the ends of months and years.
C13_EffectiveDate ==
    (call.fn = "get_video_date" /\ pc = "parse_ret") =>
        call.ret = IF call.ts.h < call.cutoff
                   THEN PrevDay(DateOf(call.ts))
                   ELSE DateOf(call.ts)

\* 2024-01-01 03-59-59 with cutoff 4 gave 2023-12-31
C13_Witness ==
    /\ call.fn = "get_video_date"
    /\ pc = "parse_ret"
    /\ call.ts = [y |-> 2024, mo |-> 1, d |-> 1, h |-> 3, mi |-> 59, s |-> 59]
    /\ call.cutoff = 4
    /\ call.ret = [y |-> 2023, mo |-> 12, d |-> 31]
\* the listing without the files whose timestamp does not parse
WithoutMalformed(listing) == SelectSeq(listing, timestamp_ok)

\* C14: a scan of a listing that holds a file whose name fails timestamp
\* parsing raises no error, puts that file in no bucket and returns exactly
\* the mapping that the scan of the listing without that file returns.
C14_MalformedSkipped ==
    (/\ call.fn = "_get_pending_videos"
     /\ pc = "scan_ret"
     /\ \E f \in Range(call.listing) : ~timestamp_ok(f)) =>
        /\ ~call.ret.raised
        /\ \A s \in Slots(call.ret.groups) :
             timestamp_ok(call.ret.groups[s[1]][s[2]])
        /\ call.ret = get_pending_videos(WithoutMalformed(call.listing), call.ledger)

\* a scan that met the malformed name before two pending files and grouped
\* both
C14_Witness ==
    /\ call.fn = "_get_pending_videos"
    /\ pc = "scan_ret"
    /\ Len(call.listing) >= 3
    /\ ~timestamp_ok(call.listing[1])
    /\ call.listing[1] \notin call.ledger
    /\ Cardinality(Slots(call.ret.groups)) >= 2

\* the seconds a printed offset stands for
DecodedSeconds(t) ==
    IF Len(t) = 3 THEN t[1] * 3600 + t[2] * 60 + t[3] ELSE t[1] * 60 + t[2]

\* the sum, in half seconds, of the durations of the first n clips
RECURSIVE SumBefore(_, _)
SumBefore(durs, n) ==
    IF n = 0 THEN 0 ELSE SumBefore(durs, n - 1) + durs[n].d

\* a description was built and every duration was obtained
DescribedAllObtained ==
    /\ call.fn = "_create_merged_description"
    /\ pc = "descr_ret"
    /\ \A i \in DOMAIN call.durs : ~call.durs[i].raised

\* C15 as stated: with all durations obtained, the offset printed on each
\* line equals the sum of the durations of the files before it.
C15_OffsetIsExactSum ==
    DescribedAllObtained =>
        /\ Len(call.ret.lines) = Len(call.files)
        /\ \A k \in DOMAIN call.ret.lines :
             2 * DecodedSeconds(call.ret.lines[k].offset) = SumBefore(call.durs, k - 1)

\* C15 amended: with all durations obtained, there is one line per file, in
\* order; the offset printed on each line is the sum of the durations of the
\* files before it rounded to the nearest whole second (a tie to the even
\* second), the first being 0, and the printed offsets never decrease.
C15_OffsetIsRoundedSum ==
    DescribedAllObtained =>
        /\ Len(call.ret.lines) = Len(call.files)
        /\ \A k \in DOMAIN call.ret.lines :
             /\ call.ret.lines[k].clip = call.files[k]
             /\ LET sum == SumBefore(call.durs, k - 1)
                    sec == DecodedSeconds(call.ret.lines[k].offset)
                IN  /\ 2 * sec - sum \in {-1, 0, 1}
                    /\ (sum % 2 = 1) => sec % 2 = 0
             /\ k > 1 => DecodedSeconds(call.ret.lines[k - 1].offset)
                            <= DecodedSeconds(call.ret.lines[k].offset)
        /\ Len(call.files) > 0 => DecodedSeconds(call.ret.lines[1].offset) = 0

\* three clips, the first of 0.5 s and the second of 1 s: the lines show
\* 00:00, 00:00 (0.5 s) and 00:02 (1.5 s)
C15_Witness ==
    /\ DescribedAllObtained
    /\ Len(call.files) = 3
    /\ call.durs[1].d = 1
    /\ call.durs[2].d = 2
    /\ call.ret.lines[2].offset = <<0, 0>>
    /\ call.ret.lines[3].offset = <<0, 2>>

\* the sum, in half seconds, of the durations obtained for the first n clips
RECURSIVE ObtainedBefore(_, _)
ObtainedBefore(durs, n) ==
    IF n = 0 THEN 0
    ELSE ObtainedBefore(durs, n - 1) + (IF durs[n].raised THEN 0 ELSE durs[n].d)

\* C16: when the duration of a clip cannot be fetched while the description
\* is built, the clip has no line in the output, the running offset is not
\* advanced for it, and every other file still gets its line.
C16_FailedClipHasNoLine ==
    (call.fn = "_create_merged_description" /\ pc = "descr_ret") =>
        /\ \A i \in DOMAIN call.files :
             call.durs[i].raised <=>
                 ~\E k \in DOMAIN call.ret.lines : call.ret.lines[k].clip = call.files[i]
        /\ call.ret.offset = ObtainedBefore(call.durs, Len(call.files))

\* the last direct call of _get_credentials took the step
Did(step) == \E i \in DOMAIN credOut.trace : credOut.trace[i] = step

\* the steps of _get_credentials that go to the network
NetworkSteps == {"refresh", "local_server", "fetch_token"}

\* C17: with no persisted credential and no client-secrets file,
\* _get_credentials raises AuthenticationError right after it found the
\* secrets missing: no refresh, no authorization flow, no network call, and
\* the credential file is not written.
C17_NoSecretsNoNetwork ==
    (credOut.called /\ credOut.before.kind = "absent" /\ ~credOut.env.secrets) =>
        /\ credOut.raised
        /\ credOut.trace = <<"secrets_missing">>
        /\ \A st \in NetworkSteps \cup {"manual", "read_secrets", "save", "save_failed"} :
             ~Did(st)
        /\ credOut.after = credOut.before

C17_Witness ==
    /\ credOut.called
    /\ credOut.before.kind = "absent"
    /\ Did("secrets_missing")
    /\ credOut.raised

\* the number of times a step occurs in a trace
Times(trace, step) == Cardinality({i \in DOMAIN trace : trace[i] = step})

\* C18: when the loaded record is expired with a refresh token and the
\* refresh fails, the call goes on with the client-secrets check and the
\* interactive authorization: it raises only if that part fails and else
\* returns the newly obtained record; no call refreshes more than once.
C18_RefreshFailureFallsThrough ==
    /\ credOut.called => Times(credOut.trace, "refresh") <= 1
    /\ (/\ credOut.called
        /\ ~CredValid(credOut.before)
        /\ ShouldRefresh(credOut.before)
        /\ ~credOut.env.refreshOk) =>
          /\ Len(credOut.trace) >= 3
          /\ SubSeq(credOut.trace, 1, 2) = <<"load", "refresh">>
          /\ credOut.trace[3] \in {"secrets_missing", "read_secrets"}
          /\ credOut.raised <=>
                \/ ~credOut.env.secrets
                \/ ~credOut.env.flowOk
                \/ (Did("manual") /\ credOut.env.manual # "ok")
          /\ ~credOut.raised =>
                /\ credOut.creds = FreshCreds
                /\ Did("local_server") \/ Did("manual")

\* a failed refresh followed by a local-server authorization
C18_Witness ==
    /\ credOut.called
    /\ ShouldRefresh(credOut.before)
    /\ ~credOut.env.refreshOk
    /\ credOut.trace = <<"load", "refresh", "read_secrets", "local_server", "save">>
    /\ credOut.creds = FreshCreds

\* C19: a loaded record that is invalid and cannot be refreshed is not
\* reused: the call goes through the client-secrets check and, unless it
\* raises, returns a record obtained by interactive authorization.
C19_InvalidRecordReobtained ==
    (/\ credOut.called
     /\ credOut.before.kind = "record"
     /\ ~CredValid(credOut.before)
     /\ ~ShouldRefresh(credOut.before)) =>
        /\ Did("secrets_missing") \/ Did("read_secrets")
        /\ ~credOut.raised =>
              /\ Did("local_server") \/ Did("manual")
              /\ CredValid(credOut.creds)

\* the step that follows the first occurrence of a step, "-" if none
StepAfter(trace, step) ==
    LET i == CHOOSE k \in DOMAIN trace : trace[k] = step /\ \A j \in 1..(k - 1) : trace[j] # step
    IN  IF i < Len(trace) THEN trace[i + 1] ELSE "-"

\* C20: in the interactive authorization a failed local-server flow is
\* followed by the manual flow; with the manual override set the
\* local-server flow is not started; and a manual flow that fails, an
\* empty code included, makes _get_credentials raise AuthenticationError
\* with nothing written.
C20_ManualFallback ==
    credOut.called =>
        /\ (Did("local_server") /\ ~credOut.env.localOk) =>
              StepAfter(credOut.trace, "local_server") = "manual"
        /\ credOut.env.force_manual =>
              /\ ~Did("local_server")
              /\ Did("manual")
        /\ (Did("manual") /\ credOut.env.manual # "ok") =>
              /\ credOut.raised
              /\ credOut.creds = NoCreds
              /\ credOut.after = credOut.before
        /\ (Did("manual") /\ credOut.env.manual = "empty_code") => ~Did("fetch_token")

\* the local-server flow failed, the manual flow got an empty code and the
\* call raised
C20_Witness ==
    /\ credOut.called
    /\ Did("local_server")
    /\ ~credOut.env.localOk
    /\ StepAfter(credOut.trace, "local_server") = "manual"
    /\ credOut.env.manual = "empty_code"
    /\ credOut.raised

\* the record the last direct call obtained before it came to persist it:
\* newly authorized, refreshed, or the loaded one
Obtained ==
    IF Did("local_server") \/ Did("manual") THEN FreshCreds
    ELSE IF Did("refresh")
         THEN [credOut.before EXCEPT !.token = TRUE, !.expired = FALSE]
         ELSE credOut.before

\* C21: when the write of the credential file fails, _get_credentials does
\* not raise: it returns the record it had obtained (reused, refreshed or
\* newly authorized), and the file is left as it was.
C21_SaveFailureIgnored ==
    (credOut.called /\ Did("save_failed")) =>
        /\ ~credOut.raised
        /\ credOut.creds = Obtained
        /\ credOut.creds.kind = "record"
        /\ credOut.after = credOut.before

\* a refreshed record was returned although it could not be written
C21_Witness ==
    /\ credOut.called
    /\ Did("refresh")
    /\ Did("save_failed")
    /\ ~credOut.raised
    /\ CredValid(credOut.creds)

\* C22: a failed group does not abort the run.  No group is entered twice
\* in a run; once the scan has returned groups the run cannot end with an
\* exception, and after a group, whatever its result, the loop goes on to
\* the next group or to the return; and when process_videos
\* returns the statistics every group of the scan was entered exactly once
\* and has ended, as a success or as a failure.
C22_RunAttemptsEveryGroup ==
    /\ \A d \in DOMAIN groupStarts : groupStarts[d] <= 1
    /\ (DOMAIN groupStarts # {}) => runOutcome # "raised"
    /\ pc \in {"loop", "group_end", "sleep"} =>
          ENABLED (StartGroup \/ ReturnStats \/ EndGroup \/ Sleep)
    /\ (pc = "run_end" /\ runOutcome = "returned") =>
          /\ \A d \in DOMAIN groupStarts : groupStarts[d] = 1
          /\ succeeded \cup failed = DOMAIN groupStarts
          /\ succeeded \cap failed = {}

\* a run returned the statistics after three groups, all of which failed
C22_Witness ==
    /\ pc = "run_end"
    /\ runOutcome = "returned"
    /\ Cardinality(failed) >= 3
    /\ \A d \in DOMAIN groupStarts : groupStarts[d] = 1

\* C23: an error of the directory listing aborts the run.  The run ends
\* with the exception and without statistics, no group is entered, and
\* neither the construction of the manager nor the failed scan uploads
\* anything, appends to the ledger or deletes a file.
C23_ListErrorAborts ==
    /\ []((listed = "error" /\ pc = "run_end") =>
             /\ runOutcome = "raised"
             /\ groupStarts = <<>>
             /\ stats = NoStats)
    /\ [][(pc \in {"init", "scan"} /\ listed' = "error") =>
             /\ pc' \in {"scan", "run_end"}
             /\ UNCHANGED <<exists, tempFiles, logFile, confirmed, callVars,
                            inserts, answered>>]_vars

\* the listing of a directory with pending files failed and the run raised
C23_Witness ==
    /\ listed = "error"
    /\ pc = "run_end"
    /\ runOutcome = "raised"
    /\ \E f \in exists : IsMp4(f) /\ f \notin uploaded_files

\* the number of files in the groups of the dates in D
RECURSIVE FilesIn(_)
FilesIn(D) ==
    IF D = {} THEN 0
    ELSE LET d == CHOOSE x \in D : TRUE
         IN  Len(videos_by_date[d]) + FilesIn(D \ {d})

\* no group is being processed: the loop is between two groups or over
BetweenGroups ==
    /\ listed = "ok"
    /\ pc \in {"loop", "run_end"} \/ (pc = "sleep" /\ sleepKind = "pacing")

\* C25: between two groups and at the end of the run the counters agree:
\* successful_uploads + failed_uploads = total_processed, which is the
\* number of files of the groups processed so far, and single_videos +
\* merged_videos is the number of groups that succeeded so far.
C25_CountersConsistent ==
    BetweenGroups =>
        /\ stats.successful_uploads + stats.failed_uploads = stats.total_processed
        /\ stats.single_videos + stats.merged_videos = Cardinality(succeeded)
        /\ pc # "run_end" =>
              stats.total_processed = FilesIn(succeeded \cup failed)

\* a group of one file and a group of two files have failed
C25_Witness ==
    /\ BetweenGroups
    /\ pc = "sleep"
    /\ Cardinality(failed) = 2
    /\ stats.failed_uploads = 3
    /\ stats.total_processed = 3
\* the merge of the current group failed: the playlist could not be
\* written or ffmpeg did not succeed
MergeFailed ==
    /\ merge.called
    /\ \/ merge.playlist \in {"open_failed", "write_failed"}
       \/ merge.ffmpeg \in {"failed", "oserror"}

\* C24: when the merge of a group of several files fails the group ends as
\* failed at once: upload_video and the fallback are not called for it, the
\* ledger is as it was when the group started, every source file of the
\* group is still there, and the loop goes on: the group is counted as
\* failed and the next step is the pause before the next group.
C24_MergeFailureFailsFast ==
    /\ [](MergeFailed =>
             /\ pc = "group_end"
             /\ ~groupRet
             /\ primaryCalls = 0
             /\ fallbackCalls = 0
             /\ inserts = 0
             /\ fbAttempt = 0
             /\ Len(logFile) = ledgerBefore
             /\ Range(video_files) \subseteq exists
             /\ delQueue = <<>>
             /\ ENABLED EndGroup)
    /\ [][MergeFailed =>
             /\ pc' = "sleep"
             /\ afterSleep' = "loop"
             /\ cur \in failed'
             /\ runOutcome' = "running"
             /\ UNCHANGED <<exists, logFile, uploaded_files>>]_vars

\* ffmpeg failed on a group of two files while another group is pending
C24_Witness ==
    /\ MergeFailed
    /\ merge.ffmpeg = "failed"
    /\ Len(video_files) = 2
    /\ pending # {}

\* C29: the playlist file written by merge_videos is gone once the call has
\* returned or raised, whatever its outcome.
C29_PlaylistRemoved ==
    merge.called => ~list_file

\* the least position from `from` on where sep occurs in s, Len(s) + 1 if
\* there is none
NextAt(s, sep, from) ==
    LET hits == {i \in from..Len(s) : Occurs(s, sep, i)}
    IN  IF hits = {} THEN Len(s) + 1
        ELSE CHOOSE i \in hits : \A j \in hits : i <= j

\* the filename has at least three segments separated by " - "
HasThreeSegments(s) ==
    \E i, j \in 1..Len(s) :
        Occurs(s, Dash, i) /\ Occurs(s, Dash, j) /\ j >= i + Len(Dash)

SecondSegment(s) ==
    LET p1 == NextAt(s, Dash, 1)
        p2 == NextAt(s, Dash, p1 + Len(Dash))
    IN  SubSeq(s, p1 + Len(Dash), p2 - 1)

\* the third segment up to its first " ("
ActivityText(s) ==
    LET p1 == NextAt(s, Dash, 1)
        p2 == NextAt(s, Dash, p1 + Len(Dash))
        p3 == NextAt(s, Dash, p2 + Len(Dash))
        third == SubSeq(s, p2 + Len(Dash), p3 - 1)
    IN  SubSeq(third, 1, NextAt(third, Paren, 1) - 1)

\* the positions where a word of the text begins
WordStarts(t) == {i \in DOMAIN t : t[i] # " " /\ (i = 1 \/ t[i - 1] = " ")}

\* the word of the text that begins at position i
WordAt(t, i) == SubSeq(t, i, NextAt(t, <<" ">>, i) - 1)

\* the title the claim describes for a filename it accepts
ExpectedTitle(s) ==
    LET t  == ActivityText(s)
        w1 == CHOOSE i \in WordStarts(t) : \A j \in WordStarts(t) : i <= j
        w2 == CHOOSE i \in WordStarts(t) \ {w1} : \A j \in WordStarts(t) \ {w1} : i <= j
    IN  SecondSegment(s) \o <<" ">> \o lower(WordAt(t, w1)) \o <<" ">> \o lower(WordAt(t, w2))

\* C27: parse_title raises InvalidFilenameError exactly for the filenames
\* with fewer than three " - "-separated segments or with fewer than two
\* words in the third segment before its first " (", and for every other
\* filename returns the second segment, a blank, and the first two of
\* those words in lower case.
C27_ParseTitle ==
    (call.fn = "parse_title" /\ pc = "title_ret") =>
        LET s == call.filename
            rejected == \/ ~HasThreeSegments(s)
                        \/ Cardinality(WordStarts(ActivityText(s))) < 2
        IN  /\ call.ret.raised <=> rejected
            /\ ~rejected => call.ret.title = ExpectedTitle(s)

\* "A - Rb - Raid Boss (x)" gave "Rb raid boss"
C27_Witness ==
    /\ call.fn = "parse_title"
    /\ pc = "title_ret"
    /\ call.filename = <<"A", " ", "-", " ", "R", "b", " ", "-", " ",
                         "R", "a", "i", "d", " ", "B", "o", "s", "s", " ", "(", "x", ")">>
    /\ call.ret = [raised |-> FALSE,
                   title |-> <<"R", "b", " ", "r", "a", "i", "d", " ", "b", "o", "s", "s">>]

\* C28: in one call of the fallback uploader the tool is run at most
\* max_retries times (the attempts are numbered from 0); the run that
\* succeeds ends the call with True, the caller going on to the ledger; a
\* failed run other than the last is followed by a sleep of retry_delay and
\* the next attempt; and the failure of the last run ends the call with
\* False at once, without a sleep.
C28_FallbackBoundedRetries ==
    /\ [](pc = "fallback" => fbAttempt <= MaxRetries - 1)
    /\ [](sleepKind = "fallback" =>
             /\ sleepFor = RetryDelay
             /\ afterSleep = "fallback"
             /\ fbAttempt \in 1..(MaxRetries - 1))
    /\ [][pc = "fallback" =>
             \/ /\ pc' = "mark"
                /\ answered'
                /\ fbAttempt' = fbAttempt
             \/ /\ fbAttempt < MaxRetries - 1
                /\ pc' = "sleep"
                /\ sleepKind' = "fallback"
                /\ fbAttempt' = fbAttempt + 1
             \/ /\ pc' = "group_end"
                /\ ~groupRet'
                /\ sleepFor' = 0]_vars
    /\ [][(pc = "fallback" /\ fbAttempt = MaxRetries - 1) =>
             pc' \in {"mark", "group_end"}]_vars

\* the last run of the tool is about to start after two failed runs
C28_Witness ==
    /\ pc = "fallback"
    /\ fbAttempt = MaxRetries - 1
    /\ fallbackCalls = 1


\* the path handed to upload_video or to the fallback, if any was handed
HandedPaths ==
    {a.path : a \in {x \in {upArgs, fbArgs} : x.path # NoPath}}

\* C30: a group of one file is uploaded directly: merge_videos is never
\* called for it and the only path handed to upload_video or to the
\* fallback is the source file.  A group of several files never enters
\* _upload_single_video, and a path is handed to upload_video or to the
\* fallback only after merge_videos returned True, and it is the merged
\* output.  Every group that was started ends, and when it ends its date
\* is among the succeeded or the failed groups.
C30_GroupLifecycle ==
    /\ [](cur # 0 /\ Len(video_files) = 1
            => /\ pc \notin {"merged", "merged_title"}
               /\ ~merge.called
               /\ ~mergedOk
               /\ HandedPaths \subseteq {SourcePath(video_files[1])})
    /\ [](cur # 0 /\ Len(video_files) >= 2
            => /\ pc # "single"
               /\ HandedPaths # {} => mergedOk /\ merge.ret = "true"
               /\ HandedPaths \subseteq {MergedPath(cur)})
    /\ [][pc = "group_end" => cur \in (succeeded' \cup failed')]_vars
    /\ (pc \in {"single", "merged"}) ~> (pc = "group_end")

\* the group of two files has ended after a successful merge, and the group
\* of one file has ended after its source file went to upload_video and to
\* the fallback
C30_Witness ==
    /\ pc = "group_end"
    /\ Len(video_files) = 1
    /\ upArgs.path = SourcePath(video_files[1])
    /\ fbArgs.path = SourcePath(video_files[1])
    /\ \E d \in failed : Len(videos_by_date[d]) >= 2


\* a step of _execute_upload that leaves the function with None
ChunkGiveUp ==
    /\ pc = "chunk"
    /\ pc' = "uv_attempt" \/ (pc' = "uv_ret" /\ uvResult' = "none")

\* C31: a next_chunk call that yields a response after at most max_retries
\* chunk errors makes _execute_upload return that response: upload_video
\* gets the id, the retry counter is not increased and no sleep follows.
C31_ChunkSuccessReturnsResponse ==
    [][pc = "chunk" /\ response' /\ chunkErrors <= MaxRetries
         => /\ uvResult' = "id"
            /\ pc' = "uv_ret"
            /\ retry' = retry]_vars

\* C32: the sleep before the r-th chunk retry is min(2^r, retry_delay), it
\* does not decrease with r and never exceeds retry_delay, and
\* _execute_upload returns None exactly when the number of chunk errors
\* exceeds max_retries.
C32_ChunkBackoffAndGiveUp ==
    /\ [](pc = "sleep" /\ sleepKind = "chunk"
            => /\ sleepFor = Min(Pow2(retry), RetryDelay)
               /\ sleepFor <= RetryDelay
               /\ \A r \in 1..retry : ChunkBackoff(r) <= ChunkBackoff(retry))
    /\ [][pc = "chunk" => (ChunkGiveUp <=> chunkErrors' > MaxRetries)]_vars


\* C33: when _upload_single_video or _upload_merged_video returns False the
\* ledger file and the set of marked names are what they were when the
\* group started.
C33_FailedGroupLedgerUnchanged ==
    pc = "group_end" /\ ~groupRet
        => /\ Len(logFile) = ledgerBefore
           /\ GroupFiles \cap uploaded_files = {}

\* C34: a step removes source files only in _safe_delete_file and only
\* files of a group whose upload was confirmed; when a group ends without a
\* confirmed upload all its source files are still in the directory.
C34_NoDeletionWithoutConfirmation ==
    /\ [][exists' # exists
            => pc = "delete" /\ (exists \ exists') \subseteq confirmed]_vars
    /\ [](pc = "group_end" /\ GroupFiles \cap confirmed = {}
            => ~groupRet /\ GroupFiles \subseteq exists)

\* a one-file group ends as failed after upload_video returned None and the
\* fallback failed in all its attempts, after a group of several files
\* ended as failed; the file is still in the directory
C34_Witness ==
    /\ pc = "group_end"
    /\ ~groupRet
    /\ Len(video_files) = 1
    /\ fallbackCalls = 1
    /\ fbAttempt = MaxRetries - 1
    /\ video_files[1] \notin confirmed
    /\ video_files[1] \in exists
    /\ \E d \in failed : Len(videos_by_date[d]) >= 2


\* C35: a call of _safe_delete_file never changes the success of the group:
\* whether it skips the file (delete_after_upload false), removes it or
\* fails to remove it, it returns to its caller, which goes on to the next
\* path or returns True; the ledger stays as _mark_as_uploaded left it.
C35_DeletionIsBestEffort ==
    [][pc = "delete"
         => /\ pc' = "delete" \/ (pc' = "group_end" /\ groupRet')
            /\ logFile' = logFile]_vars


\* C36: a file whose name parse_title rejects is rejected by its group,
\* alone or with other files: it is not handed to merge_videos, and no path
\* is handed to upload_video or to the fallback for a group that holds it.
C36_InvalidNameRejected ==
    \A f \in Range(video_files) :
        ~parse_title_ok(f)
            => /\ ~merge.called
               /\ upArgs.path = NoPath
               /\ fbArgs.path = NoPath


\* C37: a _build_service call asks for credentials exactly when no service
\* was built, or the cached credentials are missing or not valid.  A call
\* that does not ask loads, refreshes, authorizes and writes nothing: the
\* service, the cached credentials and the credential file stay as they
\* are.  A call that asks and loads a valid record returns that record
\* without refresh and without interactive authorization.
C37_CredentialsOnlyWhenNeeded ==
    /\ [](credOut.n > 0 /\ apisAvailable
            => /\ credOut.called <=> \/ ~credOut.svc
                                     \/ credOut.cached = NoCreds
                                     \/ ~CredValid(credOut.cached)
               /\ ~credOut.called
                    => /\ credOut.trace = <<>>
                       /\ service
                       /\ credentials = credOut.cached
               /\ credOut.called /\ CredValid(credOut.before)
                    => /\ ~credOut.raised
                       /\ credOut.creds = credOut.before
                       /\ credOut.trace \in {<<"load", "save">>,
                                             <<"load", "save_failed">>})
    /\ [][~credOut'.called => credState' = credState]_vars

\* the second _build_service call finds the service built and the cached
\* credentials valid, and does not ask for credentials
C37_Witness ==
    /\ credOut.n = 2
    /\ apisAvailable
    /\ ~credOut.called
    /\ credOut.svc
    /\ CredValid(credOut.cached)


\* C38: the end of a group, whatever its result, is followed by a sleep of
\* the pacing delay; the loop is entered only from the scan or from that
\* sleep, so no group starts before the sleep after the group before it has
\* returned; and a run whose scan returns no group ends without any sleep.
C38_PacingBetweenGroups ==
    /\ [][pc = "group_end"
            => /\ pc' = "sleep"
               /\ sleepKind' = "pacing"
               /\ sleepFor' = PacingDelay
               /\ afterSleep' = "loop"]_vars
    /\ [][pc' = "loop"
            => \/ pc = "scan" /\ succeeded \cup failed = {}
               \/ /\ pc = "sleep"
                  /\ sleepKind = "pacing"
                  /\ sleepFor = PacingDelay]_vars
    /\ [][pc' \in {"single", "merged"} /\ pc # pc' => pc = "loop"]_vars
    /\ [][pc = "scan" /\ pending' = {} => pc' = "run_end" /\ sleepFor' = 0]_vars
    /\ [](sleepKind = "pacing" => succeeded \cup failed # {})

\* the second group of a run starts after the pacing sleep that followed a
\* failed first group
C38_Witness ==
    /\ pc \in {"single", "merged"}
    /\ Cardinality(failed) = 1
    /\ sleepFor = 0
    /\ cur \notin failed


\* the number a string of decimal digits stands for
RECURSIVE DigitsValue(_)
DigitsValue(t) ==
    IF t = <<>> THEN 0
    ELSE 10 * DigitsValue(SubSeq(t, 1, Len(t) - 1))
         + (CHOOSE d \in 0..9 : DigitChars[d + 1] = t[Len(t)])

IsDigits(t) == \A i \in DOMAIN t : \E d \in 0..9 : DigitChars[d + 1] = t[i]

\* C39: for a whole number s of seconds format_time gives two fields
\* ("MM:SS") when s < 3600 and three ("HH:MM:SS") when s >= 3600; every
\* field consists of at least two decimal digits, the minutes and the
\* seconds of exactly two and with a value below 60, the hours with a
\* leading zero only below 10; read back as hours, minutes and seconds the
\* text gives s.
C39_FormatTimeRoundTrip ==
    (call.fn = "format_time" /\ pc = "format_ret") =>
        LET s == call.seconds
            parts == split(call.ret, <<":">>)
            n == Len(parts)
            value == [i \in DOMAIN parts |-> DigitsValue(parts[i])]
        IN  /\ n = IF s < 3600 THEN 2 ELSE 3
            /\ \A i \in DOMAIN parts : IsDigits(parts[i]) /\ Len(parts[i]) >= 2
            /\ Len(parts[n]) = 2 /\ value[n] < 60
            /\ Len(parts[n - 1]) = 2
            /\ n = 3 => value[2] < 60
            /\ Len(parts[1]) > 2 => parts[1][1] # "0"
            /\ DecodedSeconds(value) = s

\* 3601 seconds are printed as "01:00:01"
C39_Witness ==
    /\ call.fn = "format_time"
    /\ pc = "format_ret"
    /\ call.seconds = 3601
    /\ call.ret = <<"0", "1", ":", "0", "0", ":", "0", "1">>

=============================================================================
